---------------------------- MODULE Spec2Model ----------------------------
(***************************************************************************)
(* A model of the Brisk interpreter (dobrosketchkun/brisk): the value and  *)
(* heap layer (value.c), the environments (env.c), the tree-walking        *)
(* evaluator (interp.c), the lexer (lexer.c), the parser (parser.c), the   *)
(* foreign-function layer (cffi.c) and the header reader (cheader.c).      *)
(*                                                                         *)
(* The C functions are translated to operators over a machine record m     *)
(* that holds the heap, the intern table, the environments and the         *)
(* Interpreter struct.  A C function that returns a value and changes      *)
(* state returns a record with the new machine in field m.                 *)
(***************************************************************************)
EXTENDS Integers, Sequences, FiniteSets, TLC

VARIABLES
    heap,          \* all_objects: heap[o] is the object with handle o
    string_table,  \* value.c: the intern table (a handle, NULL before first use)
    envs,          \* the Environment structs, envs[e]
    interp,        \* the Interpreter struct
    trace,         \* history variable: what the evaluator did, in order; in
                   \* the header specification, the iterations of cheader_parse
    program,       \* the program node handed to exec_program
    pc,            \* the function that runs: "exec_program" while its loop
                   \* runs, then "destroyed"; "done" after a return
    tut,           \* the object under test: the table of the table
                   \* specification, the result of the last call of the others
    rc0,           \* history variable: ref-counts when the table test began
    nops,          \* the number of operations made so far; in the header
                   \* specification, the iteration of cheader_parse
    parser,        \* the Parser struct of parse(), with its Lexer; in the
                   \* header specification, the CHeaderParser
    input,         \* history variable: how the source given to parse() was
                   \* put together, the value and type given to marshal_to_c,
                   \* the source given to cheader_parse
    map,           \* history variable: the finite map the table under test
                   \* stands for, and the last table_get on it
    lx,            \* the Lexer struct of the lexer specification
    tokens,        \* history variable: the tokens lexer_next_token returned,
                   \* each with the position of the lexer before the call
    storage        \* the C slot that marshal_to_c writes

vars == <<heap, string_table, envs, interp, trace, program, pc, tut, rc0,
          nops, parser, input, map, lx, tokens, storage>>

NULL == 0

\* Bind(v, F) is F(v) with v evaluated first, as C evaluates the initialiser
\* of a local before the statements that follow it.
Bind(v, F(_)) == CASE v = v -> F(v)

---------------------------------------------------------------------------
(* Values (value.h).  A Value is a tag and a payload; a bool payload is    *)
(* 0 or 1, an object payload is the object's handle.                       *)

NIL_VAL == [type |-> "VAL_NIL", as |-> 0]
BOOL_VAL(b) == [type |-> "VAL_BOOL", as |-> IF b THEN 1 ELSE 0]
INT_VAL(n) == [type |-> "VAL_INT", as |-> n, hi |-> 0]
\* an int64_t beyond the integers of the model, hi * 2^32 + lo, where lo is
\* its low 32 bits read as an int
WIDE_INT_VAL(hi, lo) == [type |-> "VAL_INT", as |-> lo, hi |-> hi]
OBJ_VAL(o) == [type |-> "VAL_OBJ", as |-> o]

IS_NIL(v) == v.type = "VAL_NIL"
IS_BOOL(v) == v.type = "VAL_BOOL"
IS_INT(v) == v.type = "VAL_INT"
IS_OBJ(v) == v.type = "VAL_OBJ"
AS_OBJ(v) == v.as
AS_INT(v) == v.as

RECURSIVE Normal(_, _)
\* A double is written <<mant, exp>> for mant * 2^exp, with mant odd or
\* <<0, 0>>: one writing for each number.  The doubles of the model are
\* those whose odd mant is an integer of the model; no NaN, no infinity.
Normal(mant, exp) ==
    IF mant = 0 THEN <<0, 0>>
    ELSE IF mant % 2 = 0 THEN Normal(mant \div 2, exp + 1)
    ELSE <<mant, exp>>

FLOAT_VAL(d) == [type |-> "VAL_FLOAT", as |-> d[1], exp |-> d[2]]
IS_FLOAT(v) == v.type = "VAL_FLOAT"
AS_FLOAT(v) == <<v.as, v.exp>>
IS_NUMBER(v) == IS_INT(v) \/ IS_FLOAT(v)

\* (double)n for an int64_t n = hi * 2^32 + lo: exact below 2^53
IntToDouble(v) ==
    CASE v.hi = 0 -> Normal(v.as, 0)
      [] v.hi # 0 /\ v.as = 0 -> Normal(v.hi, 32)

AS_NUMBER(v) == IF IS_INT(v) THEN IntToDouble(v) ELSE AS_FLOAT(v)

OBJ_TYPE(m, v) == m.heap[v.as].type
IS_STRING(m, v) == IS_OBJ(v) /\ OBJ_TYPE(m, v) = "OBJ_STRING"
IS_ARRAY(m, v) == IS_OBJ(v) /\ OBJ_TYPE(m, v) = "OBJ_ARRAY"
IS_TABLE(m, v) == IS_OBJ(v) /\ OBJ_TYPE(m, v) = "OBJ_TABLE"
IS_FUNCTION(m, v) == IS_OBJ(v) /\ OBJ_TYPE(m, v) = "OBJ_FUNCTION"
IS_NATIVE(m, v) == IS_OBJ(v) /\ OBJ_TYPE(m, v) = "OBJ_NATIVE"

---------------------------------------------------------------------------
(* Reference counting and allocation (value.c).  A freed object keeps its  *)
(* handle; the field freed counts the calls of free_object on it.          *)

RECURSIVE obj_decref(_, _), free_object(_, _), decref_elements(_, _, _)
RECURSIVE decref_entries(_, _, _)

obj_incref(m, o) ==
    IF o = NULL THEN m
    ELSE [m EXCEPT !.heap[o].ref_count = @ + 1]

obj_decref(m, o) ==
    IF o = NULL THEN m
    ELSE LET m1 == [m EXCEPT !.heap[o].ref_count = @ - 1]
         IN  IF m1.heap[o].ref_count <= 0 THEN free_object(m1, o) ELSE m1

\* free_object, OBJ_ARRAY: decref the elements i..count of the array
decref_elements(m, elements, i) ==
    IF i > Len(elements) THEN m
    ELSE Bind(IF IS_OBJ(elements[i])
                   THEN obj_decref(m, AS_OBJ(elements[i])) ELSE m, LAMBDA m1 :
             decref_elements(m1, elements, i + 1))

\* free_object, OBJ_TABLE: decref key and value of every entry with a key
decref_entries(m, entries, i) ==
    IF i > Len(entries) THEN m
    ELSE LET e == entries[i] IN
             Bind(IF e.key # NULL THEN obj_decref(m, e.key) ELSE m, LAMBDA m1 :
             Bind(IF e.key # NULL /\ IS_OBJ(e.value)
                   THEN obj_decref(m1, AS_OBJ(e.value)) ELSE m1, LAMBDA m2 :
             decref_entries(m2, entries, i + 1)))

free_object(m, o) ==
    LET obj == m.heap[o] IN
        Bind(CASE obj.type = "OBJ_ARRAY" -> decref_elements(m, obj.elements, 1)
                [] obj.type = "OBJ_TABLE" -> decref_entries(m, obj.entries, 1)
                [] OTHER -> m, LAMBDA m1 :
        [m1 EXCEPT !.heap[o].freed = @ + 1])

\* allocate_object: a new object with ref_count 1, linked into all_objects
allocate_object(m, fields) ==
    LET o == Len(m.heap) + 1
        obj == fields @@ [ref_count |-> 1, freed |-> 0]
    IN  [m |-> [m EXCEPT !.heap = Append(@, obj)], o |-> o]

---------------------------------------------------------------------------
(* Strings (value.c).  chars is the sequence of the string's bytes.  The   *)
(* 32-bit hash is kept as its two 16-bit halves.                           *)

\* bit k of a (k a power of two), and that bit of the exclusive or of a and b
Bit(a, k) == (a \div k) % 2
XorBit(a, b, k) == k * ((Bit(a, k) + Bit(b, k)) % 2)

\* the bitwise exclusive or of two bytes
XorBits(a, b) ==
    ((XorBit(a, b, 1) + XorBit(a, b, 2)) + (XorBit(a, b, 4) + XorBit(a, b, 8)))
    + ((XorBit(a, b, 16) + XorBit(a, b, 32)) + (XorBit(a, b, 64) + XorBit(a, b, 128)))

\* one round of string_hash's loop: hash ^= byte; hash *= 16777619 (mod 2^32)
hash_step(h, byte) ==
    Bind(((h.lo \div 256) * 256) + XorBits(h.lo % 256, byte), LAMBDA lo :
        [hi |-> (((lo % 256) * 256) + (h.hi * 403) + ((lo * 403) \div 65536)) % 65536,
         lo |-> (lo * 403) % 65536])

RECURSIVE hash_loop(_, _, _)
hash_loop(h, chars, i) ==
    IF i > Len(chars) THEN h
    ELSE Bind(hash_step(h, chars[i]), LAMBDA hash :
             hash_loop(hash, chars, i + 1))

\* FNV-1a from 2166136261 = 0x811C9DC5
string_hash(chars) == hash_loop([hi |-> 33052, lo |-> 40389], chars, 1)

\* key->hash % capacity; the capacity is 8 * 2^k and divides 2^16
hash_mod(h, capacity) == h.lo % capacity

---------------------------------------------------------------------------
(* Tables (value.c).  entries[i + 1] is the C entry i; an empty entry has  *)
(* key NULL and value nil, a tombstone key NULL and a value that is not    *)
(* nil.                                                                    *)

EmptyEntry == [key |-> NULL, value |-> NIL_VAL, is_const |-> FALSE]

table_create(m) ==
    allocate_object(m, [type |-> "OBJ_TABLE", entries |-> <<>>,
                        count |-> 0, capacity |-> 0])

RECURSIVE find_entry_loop(_, _, _, _, _, _)
\* the for (;;) of find_entry; steps counts the probes, and a probe sequence
\* that visited every slot without finding an empty one never ends (-2)
find_entry_loop(entries, capacity, key, index, tombstone, steps) ==
    LET entry == entries[index + 1]
    IN  IF steps >= capacity THEN -2
        ELSE IF entry.key = NULL /\ IS_NIL(entry.value)
             THEN (IF tombstone # -1 THEN tombstone ELSE index)
        ELSE IF entry.key = NULL
             THEN find_entry_loop(entries, capacity, key, (index + 1) % capacity,
                                  IF tombstone = -1 THEN index ELSE tombstone,
                                  steps + 1)
        ELSE IF entry.key = key THEN index
        ELSE find_entry_loop(entries, capacity, key, (index + 1) % capacity,
                             tombstone, steps + 1)

\* find_entry: the index of the entry for key (-1 is the NULL of capacity 0)
find_entry(m, entries, capacity, key) ==
    IF capacity = 0 THEN -1
    ELSE find_entry_loop(entries, capacity, key,
                         hash_mod(m.heap[key].hash, capacity), -1, 0)

RECURSIVE rehash(_, _, _, _, _)
\* grow_table's loop over the old entries; the result is the new entries
rehash(m, old, i, entries, capacity) ==
    IF i > Len(old) THEN entries
    ELSE IF old[i].key = NULL THEN rehash(m, old, i + 1, entries, capacity)
    ELSE Bind(find_entry(m, entries, capacity, old[i].key), LAMBDA dest :
             rehash(m, old, i + 1, [entries EXCEPT ![dest + 1] = old[i]], capacity))

NumLive(entries) == Cardinality({i \in 1..Len(entries) : entries[i].key # NULL})

grow_table(m, t, capacity) ==
    LET old == m.heap[t].entries IN
        Bind(rehash(m, old, 1, [i \in 1..capacity |-> EmptyEntry], capacity), LAMBDA entries :
        [m EXCEPT !.heap[t].entries = entries,
                  !.heap[t].count = NumLive(old),
                  !.heap[t].capacity = capacity])

table_get(m, t, key) ==
    IF m.heap[t].count = 0 THEN [found |-> FALSE, value |-> NIL_VAL]
    ELSE Bind(find_entry(m, m.heap[t].entries, m.heap[t].capacity, key), LAMBDA i :
             LET entry == m.heap[t].entries[i + 1]
         IN  IF entry.key = NULL THEN [found |-> FALSE, value |-> NIL_VAL]
             ELSE [found |-> TRUE, value |-> entry.value])

table_set_new_key_refs(m, is_new, entry, t, key) ==
    IF is_new /\ IS_NIL(entry.value)
    THEN obj_incref([m EXCEPT !.heap[t].count = @ + 1], key)
    ELSE m

\* table_set that grows only a table without entries
table_set_no_growth(m, t, key, value, is_const) ==
    LET tb == m.heap[t] IN
        Bind(IF tb.capacity = 0 THEN grow_table(m, t, 8) ELSE m, LAMBDA m1 :
        Bind(find_entry(m1, m1.heap[t].entries, m1.heap[t].capacity, key), LAMBDA i :
        LET entry == m1.heap[t].entries[i + 1]
            is_new == entry.key = NULL IN
        Bind(table_set_new_key_refs(m1, is_new, entry, t, key), LAMBDA m2 :
        [m2 EXCEPT !.heap[t].entries[i + 1] =
                       [key |-> key, value |-> value, is_const |-> is_const]])))

table_set(m, t, key, value, is_const) ==
    LET tb == m.heap[t] IN
        Bind(IF 4 * (tb.count + 1) > 3 * tb.capacity
              THEN grow_table(m, t, IF tb.capacity < 8 THEN 8 ELSE tb.capacity * 2)
              ELSE m, LAMBDA m1 :
        Bind(find_entry(m1, m1.heap[t].entries, m1.heap[t].capacity, key), LAMBDA i :
        LET entry == m1.heap[t].entries[i + 1]
        is_new == entry.key = NULL IN
        Bind(table_set_new_key_refs(m1, is_new, entry, t, key), LAMBDA m2 :
        Bind(IF ~is_new /\ IS_OBJ(entry.value)
              THEN obj_decref(m2, AS_OBJ(entry.value)) ELSE m2, LAMBDA m3 :
        Bind(IF IS_OBJ(value) THEN obj_incref(m3, AS_OBJ(value)) ELSE m3, LAMBDA m4 :
        [m4 EXCEPT !.heap[t].entries[i + 1] =
                       [key |-> key, value |-> value, is_const |-> is_const]])))))

\* table_delete that empties the slot and leaves no tombstone
table_delete_no_tombstone(m, t, key) ==
    IF m.heap[t].count = 0 THEN m
    ELSE Bind(find_entry(m, m.heap[t].entries, m.heap[t].capacity, key), LAMBDA i :
             LET entry == m.heap[t].entries[i + 1]
         IN  IF entry.key = NULL THEN m
             ELSE Bind(obj_decref(m, entry.key), LAMBDA m1 :
                      Bind(IF IS_OBJ(entry.value)
                            THEN obj_decref(m1, AS_OBJ(entry.value)) ELSE m1, LAMBDA m2 :
                      [m2 EXCEPT !.heap[t].entries[i + 1] = EmptyEntry])))

table_delete(m, t, key) ==
    IF m.heap[t].count = 0 THEN m
    ELSE Bind(find_entry(m, m.heap[t].entries, m.heap[t].capacity, key), LAMBDA i :
             LET entry == m.heap[t].entries[i + 1]
         IN  IF entry.key = NULL THEN m
             ELSE Bind(obj_decref(m, entry.key), LAMBDA m1 :
                      Bind(IF IS_OBJ(entry.value)
                            THEN obj_decref(m1, AS_OBJ(entry.value)) ELSE m1, LAMBDA m2 :
                      [m2 EXCEPT !.heap[t].entries[i + 1].key = NULL,
                                 !.heap[t].entries[i + 1].value = BOOL_VAL(TRUE)])))


---------------------------------------------------------------------------
(* String interning and arrays (value.c).                                  *)

\* string_create without the intern lookup
intern_scan_none(m, entries, hash, chars) == NULL

\* string_create's linear search of the intern table: the first key with the
\* same length, hash and bytes, or NULL
intern_scan(m, entries, hash, chars) ==
    LET hits == {i \in 1..Len(entries) :
                    /\ entries[i].key # NULL
                    /\ m.heap[entries[i].key].length = Len(chars)
                    /\ m.heap[entries[i].key].hash = hash
                    /\ m.heap[entries[i].key].chars = chars}
    IN  IF hits = {} THEN NULL
        ELSE entries[CHOOSE i \in hits : \A j \in hits : i <= j].key

string_create(m, chars) ==
    Bind(string_hash(chars), LAMBDA hash :
        Bind(IF m.string_table # NULL
               THEN intern_scan(m, m.heap[m.string_table].entries, hash, chars)
               ELSE NULL, LAMBDA hit :
        IF hit # NULL THEN [m |-> obj_incref(m, hit), o |-> hit]
        ELSE Bind(allocate_object(m, [type |-> "OBJ_STRING", length |-> Len(chars),
                                          hash |-> hash, chars |-> chars]), LAMBDA a :
                 Bind(IF a.m.string_table = NULL
                       THEN (Bind(table_create(a.m), LAMBDA t :
                                 [t.m EXCEPT !.string_table = t.o]))
                       ELSE a.m, LAMBDA m1 :
                 Bind(obj_incref(m1, a.o), LAMBDA m2 :
                 [m |-> table_set(m2, m2.string_table, a.o, NIL_VAL, FALSE), o |-> a.o])))))

array_create(m) ==
    allocate_object(m, [type |-> "OBJ_ARRAY", elements |-> <<>>, capacity |-> 0])

\* array_push; count is Len(elements)
array_push(m, a, value) ==
    LET arr == m.heap[a]
        cap == IF Len(arr.elements) >= arr.capacity
               THEN (IF arr.capacity < 8 THEN 8 ELSE arr.capacity * 2)
               ELSE arr.capacity
        m1 == [m EXCEPT !.heap[a].capacity = cap,
                        !.heap[a].elements = Append(@, value)]
    IN  IF IS_OBJ(value) THEN obj_incref(m1, AS_OBJ(value)) ELSE m1

array_set(m, a, index, value) ==
    IF index < 0 \/ index >= Len(m.heap[a].elements) THEN m
    ELSE LET old == m.heap[a].elements[index + 1] IN
             Bind(IF IS_OBJ(old) THEN obj_decref(m, AS_OBJ(old)) ELSE m, LAMBDA m1 :
             Bind(IF IS_OBJ(value) THEN obj_incref(m1, AS_OBJ(value)) ELSE m1, LAMBDA m2 :
             [m2 EXCEPT !.heap[a].elements[index + 1] = value]))

---------------------------------------------------------------------------
(* Environments (env.c).  envs[e] is the Environment with handle e; its    *)
(* variables field is the handle of its table.                             *)

RECURSIVE env_decref(_, _), env_destroy(_, _)

\* env_incref that takes no reference
env_incref_none(m, e) == m

env_incref(m, e) ==
    IF e = NULL THEN m
    ELSE [m EXCEPT !.envs[e].ref_count = @ + 1]

env_create(m, enclosing) ==
    Bind(table_create(m), LAMBDA t :
        LET e == Len(m.envs) + 1
        env == [variables |-> t.o, enclosing |-> enclosing,
                ref_count |-> 1, freed |-> 0]
        m1 == [t.m EXCEPT !.envs = Append(@, env)]
    IN  [m |-> env_incref(m1, enclosing), e |-> e])

env_decref(m, e) ==
    IF e = NULL THEN m
    ELSE LET m1 == [m EXCEPT !.envs[e].ref_count = @ - 1]
         IN  IF m1.envs[e].ref_count <= 0 THEN env_destroy(m1, e) ELSE m1

env_destroy(m, e) ==
    IF e = NULL THEN m
    ELSE Bind(obj_decref(m, m.envs[e].variables), LAMBDA m1 :
             Bind(env_decref(m1, m.envs[e].enclosing), LAMBDA m2 :
             [m2 EXCEPT !.envs[e].freed = @ + 1]))

env_define(m, e, name, value, is_const) ==
    Bind(string_create(m, name), LAMBDA key :
        Bind(table_get(key.m, key.m.envs[e].variables, key.o), LAMBDA existing :
        IF existing.found
        THEN [m |-> obj_decref(key.m, key.o), ok |-> FALSE]
        ELSE [m |-> obj_decref(table_set(key.m, key.m.envs[e].variables, key.o,
                                         value, is_const), key.o),
              ok |-> TRUE]))

RECURSIVE env_get_walk(_, _, _)
\* env_get's while loop from environment current
env_get_walk(m, current, key) ==
    IF current = NULL THEN [found |-> FALSE, value |-> NIL_VAL]
    ELSE Bind(table_get(m, m.envs[current].variables, key), LAMBDA r :
             IF r.found THEN r
             ELSE env_get_walk(m, m.envs[current].enclosing, key))

env_get(m, e, name) ==
    Bind(string_create(m, name), LAMBDA key :
        Bind(env_get_walk(key.m, e, key.o), LAMBDA r :
        [m |-> obj_decref(key.m, key.o), found |-> r.found, value |-> r.value]))

RECURSIVE find_entry_const_loop(_, _, _, _, _)
\* the for (;;) of find_entry_const; like find_entry's it never ends on a
\* table without an empty entry (found |-> "hang")
find_entry_const_loop(m, t, key, index, steps) ==
    LET entry == m.heap[t].entries[index + 1]
        k == m.heap[key]
    IN  IF steps >= m.heap[t].capacity THEN [found |-> "hang", is_const |-> FALSE]
        ELSE IF entry.key = NULL /\ IS_NIL(entry.value)
             THEN [found |-> FALSE, is_const |-> FALSE]
        ELSE IF entry.key # NULL
                /\ m.heap[entry.key].length = k.length
                /\ m.heap[entry.key].hash = k.hash
                /\ m.heap[entry.key].chars = k.chars
             THEN [found |-> TRUE, is_const |-> entry.is_const]
        ELSE find_entry_const_loop(m, t, key, (index + 1) % m.heap[t].capacity,
                                   steps + 1)

find_entry_const(m, e, key) ==
    LET t == m.envs[e].variables
    IN  IF m.heap[t].count = 0 THEN [found |-> FALSE, is_const |-> FALSE]
        ELSE find_entry_const_loop(m, t, key,
                                   hash_mod(m.heap[key].hash, m.heap[t].capacity), 0)

RECURSIVE env_is_const_walk(_, _, _)
env_is_const_walk(m, current, key) ==
    IF current = NULL THEN FALSE
    ELSE Bind(find_entry_const(m, current, key), LAMBDA r :
             IF r.found = TRUE THEN r.is_const
             ELSE env_is_const_walk(m, m.envs[current].enclosing, key))

env_is_const(m, e, name) ==
    Bind(string_create(m, name), LAMBDA key :
        [m |-> obj_decref(key.m, key.o),
         is_const |-> env_is_const_walk(key.m, e, key.o)])

\* env_set's loop replaced by a store into the table of environment current
env_set_local(m, current, key, value) ==
    [m |-> table_set(m, m.envs[current].variables, key, value, FALSE), ok |-> TRUE]

RECURSIVE env_set_walk(_, _, _, _)
\* env_set's while loop from environment current
env_set_walk(m, current, key, value) ==
    IF current = NULL THEN [m |-> m, ok |-> FALSE]
    ELSE IF table_get(m, m.envs[current].variables, key).found
         THEN (Bind(find_entry_const(m, current, key), LAMBDA c :
                   IF c.found = TRUE /\ c.is_const THEN [m |-> m, ok |-> FALSE]
                   ELSE [m |-> table_set(m, m.envs[current].variables, key,
                                         value, FALSE),
                         ok |-> TRUE]))
    ELSE env_set_walk(m, m.envs[current].enclosing, key, value)

env_set(m, e, name, value) ==
    Bind(string_create(m, name), LAMBDA key :
        Bind(env_set_walk(key.m, e, key.o, value), LAMBDA r :
        [m |-> obj_decref(r.m, key.o), ok |-> r.ok]))

---------------------------------------------------------------------------
(* The machine record of the operators, and the variables it is kept in.   *)

EmptyMachine ==
    [heap |-> <<>>, string_table |-> NULL, envs |-> <<>>,
     interp |-> [global |-> NULL], trace |-> <<>>, frames |-> <<>>]

Machine ==
    [heap |-> heap, string_table |-> string_table, envs |-> envs,
     interp |-> interp, trace |-> trace, frames |-> <<>>]

SetMachine(m) ==
    /\ heap' = m.heap
    /\ string_table' = m.string_table
    /\ envs' = m.envs
    /\ interp' = m.interp
    /\ trace' = m.trace

InitMachine(m) ==
    /\ heap = m.heap
    /\ string_table = m.string_table
    /\ envs = m.envs
    /\ interp = m.interp
    /\ trace = m.trace

---------------------------------------------------------------------------
(* AST nodes (ast.h, ast.c): a record with the node's type, its line and   *)
(* the fields of its variant.  Names are sequences of bytes.               *)

NullNode == [type |-> "NULL"]

ast_int_literal(value, line) ==
    [type |-> "NODE_LITERAL_INT", line |-> line, value |-> value, hi |-> 0]
\* the literal of the int64_t hi * 2^32 + lo
ast_wide_literal(hi, lo, line) ==
    [type |-> "NODE_LITERAL_INT", line |-> line, value |-> lo, hi |-> hi]
ast_string_literal(value, line) ==
    [type |-> "NODE_LITERAL_STRING", line |-> line, value |-> value]
ast_bool_literal(value, line) ==
    [type |-> "NODE_LITERAL_BOOL", line |-> line, value |-> value]
ast_nil_literal(line) ==
    [type |-> "NODE_LITERAL_NIL", line |-> line]
ast_identifier(name, line) ==
    [type |-> "NODE_IDENTIFIER", line |-> line, name |-> name]
ast_binary(op, left, right, line) ==
    [type |-> "NODE_BINARY", line |-> line, operator |-> op,
     left |-> left, right |-> right]
ast_unary(op, operand, line) ==
    [type |-> "NODE_UNARY", line |-> line, operator |-> op, operand |-> operand]
ast_call(callee, args, line) ==
    [type |-> "NODE_CALL", line |-> line, callee |-> callee, arguments |-> args]
ast_index(object, index, line) ==
    [type |-> "NODE_INDEX", line |-> line, object |-> object, index |-> index]
ast_field(object, field, line) ==
    [type |-> "NODE_FIELD", line |-> line, object |-> object, field_name |-> field]
ast_table(keys, values, line) ==
    [type |-> "NODE_TABLE", line |-> line, keys |-> keys, values |-> values]
ast_array(elements, line) ==
    [type |-> "NODE_ARRAY", line |-> line, elements |-> elements]
ast_range(start, end, line) ==
    [type |-> "NODE_RANGE", line |-> line, start |-> start, end |-> end]
ast_lambda(params, body, line) ==
    [type |-> "NODE_LAMBDA", line |-> line, parameters |-> params, body |-> body]
ast_var_decl(name, init, is_const, line) ==
    [type |-> IF is_const THEN "NODE_CONST_DECL" ELSE "NODE_VAR_DECL",
     line |-> line, name |-> name, initializer |-> init, is_const |-> is_const]
ast_assignment(target, value, line) ==
    [type |-> "NODE_ASSIGNMENT", line |-> line, target |-> target, value |-> value]
ast_block(stmts, line) ==
    [type |-> "NODE_BLOCK", line |-> line, statements |-> stmts]
ast_if(cond, then_b, else_b, line) ==
    [type |-> "NODE_IF", line |-> line, condition |-> cond,
     then_branch |-> then_b, else_branch |-> else_b]
ast_while(cond, body, line) ==
    [type |-> "NODE_WHILE", line |-> line, condition |-> cond, body |-> body]
ast_for(iter, iterable, body, line) ==
    [type |-> "NODE_FOR", line |-> line, iterator_name |-> iter,
     iterable |-> iterable, body |-> body]
ast_fn_decl(name, params, body, line) ==
    [type |-> "NODE_FN_DECL", line |-> line, name |-> name,
     parameters |-> params, body |-> body]
ast_return(value, line) ==
    [type |-> "NODE_RETURN", line |-> line, value |-> value]
ast_break(line) == [type |-> "NODE_BREAK", line |-> line]
ast_continue(line) == [type |-> "NODE_CONTINUE", line |-> line]
ast_match(value, patterns, bodies, line) ==
    [type |-> "NODE_MATCH", line |-> line, value |-> value,
     patterns |-> patterns, bodies |-> bodies]
ast_defer(stmt, line) ==
    [type |-> "NODE_DEFER", line |-> line, statement |-> stmt]
ast_c_block(code, line) == [type |-> "NODE_C_BLOCK", line |-> line, code |-> code]
ast_program(stmts) == [type |-> "NODE_PROGRAM", line |-> 0, statements |-> stmts]
ast_expr_stmt(expr, line) ==
    [type |-> "NODE_EXPR_STMT", line |-> line, operand |-> expr]

---------------------------------------------------------------------------
(* History: the events of the trace and the stack of active frames.  A     *)
(* block execution, a call and a defer registration are named by the index *)
(* of their first event in the trace.                                      *)

Log(m, event) == [m EXCEPT !.trace = Append(@, event)]

PushFrame(m, frame) == [m EXCEPT !.frames = Append(@, frame)]
PopFrame(m) == [m EXCEPT !.frames = SubSeq(@, 1, Len(@) - 1)]

RECURSIVE InnermostFrame(_, _, _)
\* the id of the innermost active frame whose kind is in kinds at or below
\* position i of the frame stack (0: none)
InnermostFrame(frames, kinds, i) ==
    IF i = 0 THEN 0
    ELSE IF frames[i].kind \in kinds THEN frames[i].id
    ELSE InnermostFrame(frames, kinds, i - 1)

\* the block or call that owns a defer pushed now
CurrentScope(m) == InnermostFrame(m.frames, {"block", "call"}, Len(m.frames))
\* the call whose body is being executed
CurrentCall(m) == InnermostFrame(m.frames, {"call"}, Len(m.frames))
\* whether a deferred statement is being executed inside the current call
InDefer(m) ==
    \E i \in 1..Len(m.frames) :
        /\ m.frames[i].kind = "defer"
        /\ \A j \in (i + 1)..Len(m.frames) : m.frames[j].kind # "call"

\* the bindings of the environments: for each one whether it is alive and
\* the name, value and const flag of every variable in its table
EnvBindings(m, e) ==
    LET es == m.heap[m.envs[e].variables].entries
    IN  {[name |-> m.heap[es[i].key].chars, value |-> es[i].value,
          is_const |-> es[i].is_const] : i \in {j \in 1..Len(es) : es[j].key # NULL}}

RECURSIVE BindingsFrom(_, _)
BindingsFrom(m, e) ==
    IF e > Len(m.envs) THEN <<>>
    ELSE <<[live |-> m.envs[e].freed = 0,
            vars |-> IF m.envs[e].freed = 0 THEN EnvBindings(m, e) ELSE {}]>>
         \o BindingsFrom(m, e + 1)

Bindings(m) == BindingsFrom(m, 1)

---------------------------------------------------------------------------
(* The evaluator (interp.c).                                               *)

runtime_error(m, line, message) ==
    Log([m EXCEPT !.interp.had_error = TRUE,
                  !.interp.error_line = line,
                  !.interp.error_message = message],
        [ev |-> "error", message |-> message, line |-> line,
         bindings |-> Bindings(m)])

function_create(m, name, params, body, closure) ==
    allocate_object(m, [type |-> "OBJ_FUNCTION", name |-> name,
                        arity |-> Len(params), body |-> body,
                        params |-> params, closure |-> closure])

native_create(m, function, arity, name) ==
    allocate_object(m, [type |-> "OBJ_NATIVE", function |-> function,
                        arity |-> arity, name |-> name])

\* builtins.c register_native: the native is bound as a constant
register_native(m, env, name, function, arity) ==
    Bind(native_create(m, function, arity, name), LAMBDA n :
        env_define(n.m, env, name, OBJ_VAL(n.o), TRUE).m)

N_print == <<112, 114, 105, 110, 116>>
N_len == <<108, 101, 110>>
N_push == <<112, 117, 115, 104>>

\* register_all_builtins, for the natives the programs of the model call
register_all_builtins(m, env) ==
    Bind(register_native(m, env, N_print, "native_print", -1), LAMBDA m1 :
        Bind(register_native(m1, env, N_len, "native_len", 1), LAMBDA m2 :
        register_native(m2, env, N_push, "native_push", 2)))

interp_init(m) ==
    Bind(env_create(m, NULL), LAMBDA g :
        LET m1 == [g.m EXCEPT !.interp =
                  [global |-> g.e, current |-> g.e,
                   return_value |-> NIL_VAL, last_value |-> NIL_VAL,
                   returning |-> FALSE, breaking |-> FALSE, continuing |-> FALSE,
                   had_error |-> FALSE, error_message |-> "", error_line |-> 0,
                   defer_stack |-> <<>>]]
    IN  register_all_builtins(m1, g.e))

\* the natives (builtins.c): native->function(arg_count, args).  What print
\* writes is kept in the trace.
native_call(m, function, args) ==
    CASE function = "native_print" ->
            [m |-> Log(m, [ev |-> "print", args |-> args]), v |-> NIL_VAL]
      [] function = "native_len" ->
            [m |-> m,
             v |-> IF Len(args) # 1 THEN NIL_VAL
                   ELSE IF IS_STRING(m, args[1])
                        THEN INT_VAL(m.heap[AS_OBJ(args[1])].length)
                   ELSE IF IS_ARRAY(m, args[1])
                        THEN INT_VAL(Len(m.heap[AS_OBJ(args[1])].elements))
                   ELSE IF IS_TABLE(m, args[1])
                        THEN INT_VAL(m.heap[AS_OBJ(args[1])].count)
                   ELSE NIL_VAL]
      [] function = "native_push" ->
            [m |-> IF Len(args) = 2 /\ IS_ARRAY(m, args[1])
                   THEN array_push(m, AS_OBJ(args[1]), args[2]) ELSE m,
             v |-> NIL_VAL]

\* the defer stack is a list of entries, its head first; an entry is named
\* by the index of its registration in the trace, which stands for its address
DeferTop(m) ==
    IF m.interp.defer_stack = <<>> THEN NULL ELSE Head(m.interp.defer_stack).id

push_defer(m, stmt) ==
    LET entry == [statement |-> stmt, id |-> Len(m.trace) + 1]
    IN  Log([m EXCEPT !.interp.defer_stack = <<entry>> \o @],
            [ev |-> "defer_reg", owner |-> CurrentScope(m)])

value_equals(m, a, b) ==
    IF a.type # b.type
    THEN IF IS_NUMBER(a) /\ IS_NUMBER(b) THEN AS_NUMBER(a) = AS_NUMBER(b)
         ELSE FALSE
    ELSE CASE a.type = "VAL_NIL" -> TRUE
           [] a.type = "VAL_BOOL" -> a.as = b.as
           [] a.type = "VAL_INT" -> a.as = b.as /\ a.hi = b.hi
           [] a.type = "VAL_FLOAT" -> AS_FLOAT(a) = AS_FLOAT(b)
           [] a.type = "VAL_OBJ" ->
                IF m.heap[a.as].type # m.heap[b.as].type THEN FALSE
                ELSE IF m.heap[a.as].type = "OBJ_STRING"
                     THEN /\ m.heap[a.as].length = m.heap[b.as].length
                          /\ m.heap[a.as].hash = m.heap[b.as].hash
                          /\ m.heap[a.as].chars = m.heap[b.as].chars
                ELSE a.as = b.as

value_is_truthy(value) ==
    CASE value.type = "VAL_NIL" -> FALSE
      [] value.type = "VAL_BOOL" -> value.as = 1
      [] value.type = "VAL_INT" -> value.as # 0 \/ value.hi # 0
      [] value.type = "VAL_OBJ" -> TRUE

RECURSIVE Digits(_)
\* the decimal digits of n >= 0, as bytes
Digits(n) ==
    IF n < 10 THEN <<48 + n>> ELSE Append(Digits(n \div 10), 48 + (n % 10))

\* value_to_string for nil, booleans, integers and strings; "<type>" for
\* the other objects
value_to_string(m, value) ==
    CASE value.type = "VAL_NIL" -> <<110, 105, 108>>
      [] value.type = "VAL_BOOL" ->
            IF value.as = 1 THEN <<116, 114, 117, 101>>
            ELSE <<102, 97, 108, 115, 101>>
      [] value.type = "VAL_INT" ->
            IF value.as < 0 THEN <<45>> \o Digits(-value.as) ELSE Digits(value.as)
      [] value.type = "VAL_OBJ" ->
            IF m.heap[value.as].type = "OBJ_STRING" THEN m.heap[value.as].chars
            ELSE CASE m.heap[value.as].type = "OBJ_ARRAY" ->
                        <<60, 97, 114, 114, 97, 121, 62>>
                   [] m.heap[value.as].type = "OBJ_TABLE" ->
                        <<60, 116, 97, 98, 108, 101, 62>>
                   [] m.heap[value.as].type = "OBJ_FUNCTION" ->
                        <<60, 102, 117, 110, 99, 116, 105, 111, 110, 62>>
                   [] OTHER -> <<60, 110, 97, 116, 105, 118, 101, 62>>

string_concat(m, a, b) ==
    string_create(m, m.heap[a].chars \o m.heap[b].chars)

\* C's l / r and l % r on integers: the quotient is truncated towards zero
Abs(n) == IF n < 0 THEN -n ELSE n
c_div(l, r) ==
    IF (l < 0) = (r < 0) THEN Abs(l) \div Abs(r) ELSE -(Abs(l) \div Abs(r))
c_mod(l, r) == l - (r * c_div(l, r))

\* (int)AS_INT(value): the conversion keeps the low 32 bits
int_cast(value) == value.as

RECURSIVE eval(_, _), exec(_, _), eval_binary(_, _), eval_unary(_, _)
RECURSIVE eval_call(_, _), eval_arguments(_, _, _, _), eval_elements(_, _, _, _)
RECURSIVE exec_block(_, _), exec_block_loop(_, _, _), pop_defers(_, _)
RECURSIVE exec_if(_, _), exec_while(_, _, _), exec_for(_, _), exec_for_loop(_, _, _, _)
RECURSIVE exec_match(_, _, _, _), exec_program_loop(_, _, _)
RECURSIVE call_function(_, _, _, _), eval_table_entries(_, _, _, _)
RECURSIVE bind_parameters(_, _, _, _, _), range_elements(_, _, _)

NilResult(m) == [m |-> m, v |-> NIL_VAL]

\* the while loops of a program are followed for at most MaxIter iterations
MaxIter == 3

\* exec without its test of had_error
exec_skips_no_node(m, node) == node.type = "NULL"

\* exec's first test: no node, or an error was recorded
exec_skips(m, node) == node.type = "NULL" \/ m.interp.had_error

\* eval, case NODE_INDEX
eval_index(m, node) ==
    Bind(eval(m, node.object), LAMBDA object :
        Bind(eval(object.m, node.index), LAMBDA index :
        LET m2 == index.m
    IN  IF object.m.interp.had_error THEN NilResult(object.m)
        ELSE IF m2.interp.had_error THEN NilResult(m2)
        ELSE IF IS_ARRAY(m2, object.v)
             THEN (IF ~IS_INT(index.v)
                   THEN NilResult(runtime_error(m2, node.line,
                                                "Array index must be integer"))
                   ELSE Bind(int_cast(index.v), LAMBDA idx :
                            LET arr == m2.heap[AS_OBJ(object.v)]
                        IN  IF idx < 0 \/ idx >= Len(arr.elements)
                            THEN NilResult(runtime_error(m2, node.line,
                                                  "Array index out of bounds"))
                            ELSE [m |-> m2, v |-> arr.elements[idx + 1]]))
        ELSE IF IS_TABLE(m2, object.v)
             THEN (IF ~IS_STRING(m2, index.v)
                   THEN NilResult(runtime_error(m2, node.line,
                                                "Table key must be string"))
                   ELSE [m |-> m2,
                         v |-> table_get(m2, AS_OBJ(object.v), AS_OBJ(index.v)).value])
        ELSE IF IS_STRING(m2, object.v)
             THEN (IF ~IS_INT(index.v)
                   THEN NilResult(runtime_error(m2, node.line,
                                                "String index must be integer"))
                   ELSE Bind(int_cast(index.v), LAMBDA idx :
                            LET str == m2.heap[AS_OBJ(object.v)]
                        IN  IF idx < 0 \/ idx >= str.length
                            THEN NilResult(runtime_error(m2, node.line,
                                                  "String index out of bounds"))
                            ELSE Bind(string_create(m2, <<str.chars[idx + 1]>>), LAMBDA s :
                                     [m |-> s.m, v |-> OBJ_VAL(s.o)])))
        ELSE NilResult(runtime_error(m2, node.line, "Cannot index type"))))

\* eval, case NODE_FIELD
eval_field(m, node) ==
    Bind(eval(m, node.object), LAMBDA object :
        LET m1 == object.m
    IN  IF m1.interp.had_error THEN NilResult(m1)
        ELSE IF IS_TABLE(m1, object.v)
             THEN (Bind(string_create(m1, node.field_name), LAMBDA key :
                       Bind(table_get(key.m, AS_OBJ(object.v), key.o), LAMBDA r :
                       [m |-> obj_decref(key.m, key.o),
                        v |-> IF r.found THEN r.value ELSE NIL_VAL])))
        ELSE NilResult(runtime_error(m1, node.line, "Cannot access field on type")))

\* eval, case NODE_TABLE: the loop over the entries from index i into table
eval_table_entries(m, node, i, table) ==
    IF i > Len(node.keys) THEN [m |-> m, v |-> OBJ_VAL(table)]
    ELSE Bind(string_create(m, node.keys[i]), LAMBDA key :
             Bind(eval(key.m, node.values[i]), LAMBDA value :
             IF value.m.interp.had_error
             THEN NilResult(obj_decref(obj_decref(value.m, key.o), table))
             ELSE Bind(table_set(value.m, table, key.o, value.v, FALSE), LAMBDA m1 :
                      Bind(obj_decref(m1, key.o), LAMBDA m2 :
                      eval_table_entries(m2, node, i + 1, table)))))

\* eval, case NODE_ARRAY: the loop over the elements from index i into array arr
eval_elements(m, node, i, arr) ==
    IF i > Len(node.elements) THEN [m |-> m, v |-> OBJ_VAL(arr)]
    ELSE Bind(eval(m, node.elements[i]), LAMBDA elem :
             IF elem.m.interp.had_error
             THEN NilResult(obj_decref(elem.m, arr))
             ELSE Bind(array_push(elem.m, arr, elem.v), LAMBDA m1 :
                      eval_elements(m1, node, i + 1, arr)))

\* eval, case NODE_RANGE: the values pushed for i, i +/- 1, ... up to e
\* a range that only ascends: s..e with s > e is empty
range_elements_ascending(i, e, step) ==
    [k \in 1..(IF e > i THEN e - i ELSE 0) |-> INT_VAL(i + k - 1)]

range_elements(i, e, step) ==
    IF (step = 1 /\ i < e) \/ (step = -1 /\ i > e)
    THEN <<INT_VAL(i)>> \o range_elements(i + step, e, step)
    ELSE <<>>

RECURSIVE push_all(_, _, _, _)
push_all(m, arr, values, i) ==
    IF i > Len(values) THEN m
    ELSE Bind(array_push(m, arr, values[i]), LAMBDA m1 :
             push_all(m1, arr, values, i + 1))

eval_range(m, node) ==
    Bind(eval(m, node.start), LAMBDA start :
        Bind(eval(start.m, node.end), LAMBDA end :
        LET m2 == end.m
    IN  IF start.m.interp.had_error THEN NilResult(start.m)
        ELSE IF m2.interp.had_error THEN NilResult(m2)
        ELSE IF ~IS_INT(start.v) \/ ~IS_INT(end.v)
             THEN NilResult(runtime_error(m2, node.line,
                                          "Range bounds must be integers"))
        ELSE LET s == AS_INT(start.v)
                 e == AS_INT(end.v) IN
                 Bind(array_create(m2), LAMBDA arr :
                 Bind(IF s <= e THEN range_elements(s, e, 1)
                           ELSE range_elements(s, e, -1), LAMBDA values :
                 [m |-> push_all(arr.m, arr.o, values, 1), v |-> OBJ_VAL(arr.o)]))))

eval(m, node) ==
    IF node.type = "NULL" \/ m.interp.had_error THEN NilResult(m)
    ELSE CASE node.type = "NODE_LITERAL_INT" ->
                [m |-> m, v |-> WIDE_INT_VAL(node.hi, node.value)]
           [] node.type = "NODE_LITERAL_STRING" ->
                Bind(string_create(m, node.value), LAMBDA str :
                    [m |-> str.m, v |-> OBJ_VAL(str.o)])
           [] node.type = "NODE_LITERAL_BOOL" -> [m |-> m, v |-> BOOL_VAL(node.value)]
           [] node.type = "NODE_LITERAL_NIL" -> NilResult(m)
           [] node.type = "NODE_IDENTIFIER" ->
                Bind(env_get(m, m.interp.current, node.name), LAMBDA r :
                    IF ~r.found
                    THEN NilResult(runtime_error(r.m, node.line, "Undefined variable"))
                    ELSE [m |-> r.m, v |-> r.value])
           [] node.type = "NODE_BINARY" -> eval_binary(m, node)
           [] node.type = "NODE_UNARY" -> eval_unary(m, node)
           [] node.type = "NODE_CALL" -> eval_call(m, node)
           [] node.type = "NODE_INDEX" -> eval_index(m, node)
           [] node.type = "NODE_ARRAY" ->
                Bind(array_create(m), LAMBDA arr :
                    eval_elements(arr.m, node, 1, arr.o))
           [] node.type = "NODE_FIELD" -> eval_field(m, node)
           [] node.type = "NODE_TABLE" ->
                Bind(table_create(m), LAMBDA table :
                    eval_table_entries(table.m, node, 1, table.o))
           [] node.type = "NODE_RANGE" -> eval_range(m, node)
           [] node.type = "NODE_LAMBDA" ->
                Bind(function_create(m, <<>>, node.parameters, node.body,
                                          m.interp.current), LAMBDA fn :
                    [m |-> env_incref(fn.m, m.interp.current), v |-> OBJ_VAL(fn.o)])
           [] OTHER -> NilResult(runtime_error(m, node.line, "Unknown expression type"))

\* eval_binary from the numeric operations on, for two integers
eval_binary_int(m, node, l, r) ==
    LET op == node.operator
    IN  CASE op = "TOKEN_PLUS" -> [m |-> m, v |-> INT_VAL(l + r)]
          [] op = "TOKEN_MINUS" -> [m |-> m, v |-> INT_VAL(l - r)]
          [] op = "TOKEN_STAR" -> [m |-> m, v |-> INT_VAL(l * r)]
          [] op = "TOKEN_SLASH" ->
                IF r = 0 THEN NilResult(runtime_error(m, node.line, "Division by zero"))
                ELSE [m |-> m, v |-> INT_VAL(c_div(l, r))]
          [] op = "TOKEN_PERCENT" ->
                IF r = 0 THEN NilResult(runtime_error(m, node.line, "Modulo by zero"))
                ELSE [m |-> m, v |-> INT_VAL(c_mod(l, r))]
          [] op = "TOKEN_LT" -> [m |-> m, v |-> BOOL_VAL(l < r)]
          [] op = "TOKEN_GT" -> [m |-> m, v |-> BOOL_VAL(l > r)]
          [] op = "TOKEN_LTE" -> [m |-> m, v |-> BOOL_VAL(l <= r)]
          [] op = "TOKEN_GTE" -> [m |-> m, v |-> BOOL_VAL(l >= r)]
          [] OTHER -> NilResult(runtime_error(m, node.line, "Unknown operator"))

\* eval_binary from the right operand on
eval_binary_right(m, node, left) ==
    Bind(eval(left.m, node.right), LAMBDA right :
        LET m2 == right.m
        op == node.operator
    IN  IF m2.interp.had_error THEN NilResult(m2)
        ELSE IF op = "TOKEN_EQEQ"
             THEN [m |-> m2, v |-> BOOL_VAL(value_equals(m2, left.v, right.v))]
        ELSE IF op = "TOKEN_NEQ"
             THEN [m |-> m2, v |-> BOOL_VAL(~value_equals(m2, left.v, right.v))]
        ELSE IF op = "TOKEN_PLUS" /\ IS_STRING(m2, left.v) /\ IS_STRING(m2, right.v)
             THEN (Bind(string_concat(m2, AS_OBJ(left.v), AS_OBJ(right.v)), LAMBDA s :
                       [m |-> s.m, v |-> OBJ_VAL(s.o)]))
        ELSE IF op = "TOKEN_PLUS" /\ IS_STRING(m2, left.v)
             THEN (Bind(string_create(m2, value_to_string(m2, right.v)), LAMBDA right_obj :
                       Bind(string_concat(right_obj.m, AS_OBJ(left.v), right_obj.o), LAMBDA s :
                       [m |-> obj_decref(s.m, right_obj.o), v |-> OBJ_VAL(s.o)])))
        ELSE IF ~IS_INT(left.v) \/ ~IS_INT(right.v)
             THEN NilResult(runtime_error(m2, node.line, "Operands must be numbers"))
        ELSE eval_binary_int(m2, node, AS_INT(left.v), AS_INT(right.v)))

eval_binary(m, node) ==
    Bind(eval(m, node.left), LAMBDA left :
        LET op == node.operator
    IN  IF left.m.interp.had_error THEN NilResult(left.m)
        ELSE IF op = "TOKEN_AND" /\ ~value_is_truthy(left.v) THEN left
        ELSE IF op = "TOKEN_OR" /\ value_is_truthy(left.v) THEN left
        ELSE IF op \in {"TOKEN_AND", "TOKEN_OR"} THEN eval(left.m, node.right)
        ELSE eval_binary_right(left.m, node, left))

eval_unary(m, node) ==
    Bind(eval(m, node.operand), LAMBDA operand :
        LET m1 == operand.m
    IN  IF m1.interp.had_error THEN NilResult(m1)
        ELSE CASE node.operator = "TOKEN_MINUS" ->
                    IF IS_INT(operand.v) THEN [m |-> m1, v |-> INT_VAL(-AS_INT(operand.v))]
                    ELSE NilResult(runtime_error(m1, node.line,
                                                 "Operand must be a number"))
               [] node.operator \in {"TOKEN_NOT", "TOKEN_BANG"} ->
                    [m |-> m1, v |-> BOOL_VAL(~value_is_truthy(operand.v))]
               [] OTHER -> NilResult(runtime_error(m1, node.line,
                                                   "Unknown unary operator")))

---------------------------------------------------------------------------
(* Marshalling (cffi.c).  A C slot holds what the last store put there,    *)
(* with the kind of the stored object: an integer object by its value as   *)
(* an int64_t (hi * 2^32 + as), a float or double by its value, a pointer  *)
(* by the region it points into.  The build is the one of x86-64 Linux:    *)
(* char is signed and 8 bits wide, short 16, int 32, long and long long    *)
(* 64, float has 24 bits of significand.                                   *)

CInt(v) == [kind |-> "integer", as |-> v.as, hi |-> v.hi]
CFloating(d) == [kind |-> "floating", as |-> d[1], exp |-> d[2]]
CPointer(region, at) == [kind |-> "pointer", region |-> region, at |-> at]
\* storage no store has reached
Unwritten == [kind |-> "unwritten"]
\* NULL as a pointer
NullPointer == CPointer("null", 0)

\* (char)n, (short)n: the low bits of n read as a signed integer
NarrowSigned(v, bits) ==
    LET low == v.as % (2^bits)
    IN  INT_VAL(IF low >= 2^(bits - 1) THEN low - 2^bits ELSE low)

\* (unsigned char)n, (unsigned short)n
NarrowUnsigned(v, bits) == INT_VAL(v.as % (2^bits))

\* (int)n
NarrowInt(v) == INT_VAL(v.as)

\* (unsigned int)n, as an int64_t
NarrowUnsignedInt(v) == IF v.as < 0 THEN WIDE_INT_VAL(1, v.as) ELSE INT_VAL(v.as)

RECURSIVE BitLength(_)
\* the number of bits of n > 0
BitLength(n) == IF n = 0 THEN 0 ELSE 1 + BitLength(n \div 2)

\* (float)d: d rounded to 24 bits of significand, ties to even
DoubleToFloat(d) ==
    LET mag == IF d[1] < 0 THEN -d[1] ELSE d[1]
        sign == IF d[1] < 0 THEN -1 ELSE 1
        drop == BitLength(mag) - 24
    IN  IF drop <= 0 THEN d
        ELSE LET q == mag \div (2^drop)
                 r == mag % (2^drop)
                 half == 2^(drop - 1)
                 up == r > half \/ (r = half /\ q % 2 = 1)
             IN  Normal(sign * (IF up THEN q + 1 ELSE q), d[2] + drop)

IS_POINTER(m, v) == IS_OBJ(v) /\ OBJ_TYPE(m, v) = "OBJ_POINTER"
IS_CSTRUCT(m, v) == IS_OBJ(v) /\ OBJ_TYPE(m, v) = "OBJ_CSTRUCT"

pointer_create(m, ptr, type_name) ==
    allocate_object(m, [type |-> "OBJ_POINTER", ptr |-> ptr, type_name |-> type_name])

\* (void*)(intptr_t)n
IntToPointer(v) == IF v.as = 0 /\ v.hi = 0 THEN NullPointer ELSE CPointer("address", v)

\* the storage is left as it is where nothing is stored
marshal_to_c(m, value, type, out) ==
    LET stored(c) == [ok |-> TRUE, out |-> c]
        refused == [ok |-> FALSE, out |-> out]
    IN  CASE type = "CTYPE_VOID" -> [ok |-> TRUE, out |-> out]
          [] type \in {"CTYPE_CHAR", "CTYPE_SCHAR"} ->
                IF IS_INT(value) THEN stored(CInt(NarrowSigned(value, 8)))
                ELSE IF IS_STRING(m, value) /\ m.heap[AS_OBJ(value)].length > 0
                     THEN stored(CInt(NarrowSigned(INT_VAL(m.heap[AS_OBJ(value)].chars[1]), 8)))
                ELSE refused
          [] type \in {"CTYPE_UCHAR", "CTYPE_UINT8"} ->
                IF IS_INT(value) THEN stored(CInt(NarrowUnsigned(value, 8))) ELSE refused
          [] type \in {"CTYPE_SHORT", "CTYPE_INT16"} ->
                IF IS_INT(value) THEN stored(CInt(NarrowSigned(value, 16))) ELSE refused
          [] type \in {"CTYPE_USHORT", "CTYPE_UINT16"} ->
                IF IS_INT(value) THEN stored(CInt(NarrowUnsigned(value, 16))) ELSE refused
          [] type \in {"CTYPE_INT", "CTYPE_INT32", "CTYPE_BOOL"} ->
                IF IS_INT(value) THEN stored(CInt(NarrowInt(value)))
                ELSE IF IS_BOOL(value)
                     THEN stored(CInt(INT_VAL(IF value.as = 1 THEN 1 ELSE 0)))
                ELSE refused
          [] type \in {"CTYPE_UINT", "CTYPE_UINT32"} ->
                IF IS_INT(value) THEN stored(CInt(NarrowUnsignedInt(value))) ELSE refused
          [] type \in {"CTYPE_LONG", "CTYPE_INT64", "CTYPE_ULONG", "CTYPE_UINT64",
                       "CTYPE_SIZE_T", "CTYPE_LONGLONG", "CTYPE_ULONGLONG"} ->
                IF IS_INT(value) THEN stored(CInt(value)) ELSE refused
          [] type = "CTYPE_FLOAT" ->
                IF IS_INT(value) THEN stored(CFloating(DoubleToFloat(IntToDouble(value))))
                ELSE IF IS_FLOAT(value)
                     THEN stored(CFloating(DoubleToFloat(AS_FLOAT(value))))
                ELSE refused
          [] type = "CTYPE_DOUBLE" ->
                IF IS_INT(value) THEN stored(CFloating(IntToDouble(value)))
                ELSE IF IS_FLOAT(value) THEN stored(CFloating(AS_FLOAT(value)))
                ELSE refused
          [] type = "CTYPE_STRING" ->
                IF IS_NIL(value) THEN stored(NullPointer)
                ELSE IF IS_STRING(m, value) THEN stored(CPointer("chars", AS_OBJ(value)))
                ELSE refused
          [] type = "CTYPE_POINTER" ->
                IF IS_NIL(value) THEN stored(NullPointer)
                ELSE IF IS_POINTER(m, value) THEN stored(m.heap[AS_OBJ(value)].ptr)
                ELSE IF IS_CSTRUCT(m, value) THEN stored(m.heap[AS_OBJ(value)].data)
                ELSE IF IS_INT(value) THEN stored(IntToPointer(value))
                ELSE refused
          [] type = "CTYPE_STRUCT" ->
                IF IS_CSTRUCT(m, value) THEN stored(m.heap[AS_OBJ(value)].data)
                ELSE refused
          [] OTHER -> refused

\* strlen on the bytes of a string object, which end with a NUL
strlen(chars) ==
    IF \E i \in 1..Len(chars) : chars[i] = 0
    THEN (CHOOSE i \in 1..Len(chars) :
              chars[i] = 0 /\ \A j \in 1..(i - 1) : chars[j] # 0) - 1
    ELSE Len(chars)

\* in is a slot that was stored as type
marshal_from_c(m, in, type) ==
    LET value(v) == [m |-> m, value |-> v]
        integer == [type |-> "VAL_INT", as |-> in.as, hi |-> in.hi]
    IN  CASE type = "CTYPE_VOID" -> value(NIL_VAL)
          [] type \in {"CTYPE_CHAR", "CTYPE_SCHAR", "CTYPE_UCHAR", "CTYPE_UINT8",
                       "CTYPE_SHORT", "CTYPE_INT16", "CTYPE_USHORT", "CTYPE_UINT16",
                       "CTYPE_INT", "CTYPE_INT32", "CTYPE_UINT", "CTYPE_UINT32",
                       "CTYPE_LONG", "CTYPE_INT64", "CTYPE_ULONG", "CTYPE_UINT64",
                       "CTYPE_SIZE_T", "CTYPE_LONGLONG", "CTYPE_ULONGLONG"} ->
                value(integer)
          [] type \in {"CTYPE_FLOAT", "CTYPE_DOUBLE"} -> value(FLOAT_VAL(<<in.as, in.exp>>))
          [] type = "CTYPE_BOOL" -> value(BOOL_VAL(in.as # 0 \/ in.hi # 0))
          [] type = "CTYPE_STRING" ->
                IF in.region = "null" THEN value(NIL_VAL)
                ELSE Bind(m.heap[in.at].chars, LAMBDA str :
                     Bind(string_create(m, SubSeq(str, 1, strlen(str))), LAMBDA s :
                         [m |-> s.m, value |-> OBJ_VAL(s.o)]))
          [] type = "CTYPE_POINTER" ->
                IF in.region = "null" THEN value(NIL_VAL)
                ELSE Bind(pointer_create(m, in, "void*"), LAMBDA a :
                         [m |-> a.m, value |-> OBJ_VAL(a.o)])
          [] OTHER -> value(NIL_VAL)


\* cfunc_create; the function at func_ptr is written as the slot it
\* returns, whatever its arguments
cfunc_create(name, return_type, param_types, is_variadic, func_ptr) ==
    [name |-> name, return_type |-> return_type, param_types |-> param_types,
     param_count |-> Len(param_types), is_variadic |-> is_variadic,
     func_ptr |-> func_ptr, cif_prepared |-> FALSE]

\* ffi_prep_cif and ffi_prep_cif_var take every type of ctype_to_ffi
cfunc_prepare(desc) == [ok |-> TRUE, desc |-> [desc EXCEPT !.cif_prepared = TRUE]]

cfunction_create(m, desc) ==
    allocate_object(m, [type |-> "OBJ_CFUNCTION", desc |-> desc])

IS_CFUNCTION(m, v) == IS_OBJ(v) /\ OBJ_TYPE(m, v) = "OBJ_CFUNCTION"

\* cffi_call, the type of argument i (counted from 0)
param_type_of(m, desc, args, i) ==
    IF i < desc.param_count THEN desc.param_types[i + 1]
    ELSE IF IS_INT(args[i + 1]) THEN "CTYPE_INT"
    ELSE IF IS_FLOAT(args[i + 1]) THEN "CTYPE_DOUBLE"
    ELSE IF IS_STRING(m, args[i + 1]) THEN "CTYPE_STRING"
    ELSE IF IS_POINTER(m, args[i + 1]) THEN "CTYPE_POINTER"
    ELSE "CTYPE_INT"

RECURSIVE marshal_arguments(_, _, _, _, _, _)
\* cffi_call's loop over the arguments from index i (counted from 0);
\* arg_storage holds the slots stored so far
marshal_arguments(m, desc, arg_count, args, i, arg_storage) ==
    IF ~(i < arg_count) THEN [ok |-> TRUE, arg_storage |-> arg_storage, i |-> i]
    ELSE Bind(marshal_to_c(m, args[i + 1], param_type_of(m, desc, args, i), Unwritten),
              LAMBDA r :
                 IF ~r.ok THEN [ok |-> FALSE, arg_storage |-> arg_storage, i |-> i]
                 ELSE marshal_arguments(m, desc, arg_count, args, i + 1,
                                        Append(arg_storage, r.out)))

\* cffi_call on the descriptor of the function object cfn.  It is not given
\* the Interpreter; its messages go to stderr (event "ffi_error").
cffi_call(m, cfn, arg_count, args) ==
    Bind(IF m.heap[cfn].desc.cif_prepared THEN [ok |-> TRUE, desc |-> m.heap[cfn].desc]
         ELSE cfunc_prepare(m.heap[cfn].desc), LAMBDA prep :
    Bind([m EXCEPT !.heap[cfn].desc = prep.desc], LAMBDA m1 :
    LET desc == prep.desc
        failed(message) ==
            [m |-> Log(m1, [ev |-> "ffi_error", name |-> desc.name,
                            message |-> message]),
             v |-> NIL_VAL]
    IN  IF ~prep.ok THEN failed("Failed to prepare call")
        ELSE IF ~desc.is_variadic /\ arg_count # desc.param_count
             THEN failed("expects arguments")
        ELSE IF desc.is_variadic /\ arg_count < desc.param_count
             THEN failed("expects at least arguments")
        ELSE Bind(marshal_arguments(m1, desc, arg_count, args, 0, <<>>), LAMBDA a :
                 IF ~a.ok THEN failed("Failed to marshal argument")
                 ELSE Bind(Log(m1, [ev |-> "ffi_call", name |-> desc.name,
                                    args |-> a.arg_storage]), LAMBDA m2 :
                      Bind(marshal_from_c(m2, desc.func_ptr, desc.return_type),
                           LAMBDA r : [m |-> r.m, v |-> r.value])))))

\* eval_call's loop over the arguments from index i; args are those evaluated
eval_arguments(m, node, i, args) ==
    IF i > Len(node.arguments) THEN [m |-> m, args |-> args]
    ELSE Bind(eval(m, node.arguments[i]), LAMBDA a :
             IF a.m.interp.had_error THEN [m |-> a.m, args |-> args]
             ELSE eval_arguments(a.m, node, i + 1, Append(args, a.v)))

\* eval_call's loop binding parameter i.. of fn to the arguments
bind_parameters(m, fn_env, params, args, i) ==
    IF i > Len(params) THEN m
    ELSE Bind(env_define(m, fn_env, params[i], args[i], FALSE).m, LAMBDA m1 :
             bind_parameters(m1, fn_env, params, args, i + 1))

\* eval_call, the branch of a script function fn called with args
call_function(m, node, fn, args) ==
    LET f == m.heap[fn] IN
        Bind(env_create(m, f.closure), LAMBDA e :
        LET fn_env == e.e IN
        Bind(bind_parameters(e.m, fn_env, f.params, args, 1), LAMBDA m1 :
        LET id == Len(m1.trace) + 1 IN
        Bind(PushFrame(Log(m1, [ev |-> "call_enter", fn |-> fn, env |-> fn_env,
                                previous |-> m1.interp.current,
                                enclosing |-> m1.envs[fn_env].enclosing,
                                bound |-> EnvBindings(m1, fn_env)]),
                        [kind |-> "call", id |-> id]), LAMBDA m2 :
        LET previous == m2.interp.current IN
        Bind(DeferTop(m2), LAMBDA defer_marker :
        LET m3 == [m2 EXCEPT !.interp.current = fn_env,
                         !.interp.last_value = NIL_VAL] IN
        Bind(exec(m3, f.body), LAMBDA m4 :
        Bind(pop_defers(m4, defer_marker), LAMBDA m5 :
        Bind(env_decref([m5 EXCEPT !.interp.current = previous], fn_env), LAMBDA m6 :
        LET result == IF m6.interp.returning THEN m6.interp.return_value
                  ELSE m6.interp.last_value IN
        Bind(Log([m6 EXCEPT !.interp.returning = FALSE],
                  [ev |-> "call_exit", id |-> id, fn |-> fn,
                   explicit |-> m6.interp.returning, result |-> result,
                   error |-> m6.interp.had_error,
                   breaking |-> m6.interp.breaking,
                   continuing |-> m6.interp.continuing,
                   current |-> m6.interp.current]), LAMBDA m7 :
        [m |-> PopFrame(m7), v |-> result]))))))))

\* eval_call after the arguments: the arity checks and the call itself
eval_call_callee(m, node, callee, args) ==
    LET arg_count == Len(node.arguments)
    IN  IF IS_NATIVE(m, callee)
        THEN (LET native == m.heap[AS_OBJ(callee)]
              IN  IF native.arity >= 0 /\ arg_count # native.arity
                  THEN NilResult(runtime_error(m, node.line, "Expected arguments"))
                  ELSE native_call(
                           Log(m, [ev |-> "native", name |-> native.name,
                                   args |-> args]),
                           native.function, args))
        ELSE IF IS_CFUNCTION(m, callee)
             THEN Bind(cffi_call(m, AS_OBJ(callee), arg_count, args), LAMBDA r :
                      [m |-> Log(r.m, [ev |-> "ffi_return", result |-> r.v]),
                       v |-> r.v])
        ELSE IF IS_FUNCTION(m, callee)
             THEN (IF arg_count # m.heap[AS_OBJ(callee)].arity
                   THEN NilResult(runtime_error(m, node.line, "Expected arguments"))
                   ELSE call_function(m, node, AS_OBJ(callee), args))
        ELSE NilResult(runtime_error(m, node.line, "Can only call functions"))

eval_call(m, node) ==
    Bind(eval(m, node.callee), LAMBDA callee :
        IF callee.m.interp.had_error THEN NilResult(callee.m)
        ELSE Bind(eval_arguments(callee.m, node, 1, <<>>), LAMBDA a :
                 IF a.m.interp.had_error THEN NilResult(a.m)
                 ELSE Bind(Log(a.m, [ev |-> "call", callee |-> callee.v,
                                     args |-> a.args]), LAMBDA m2 :
                          eval_call_callee(m2, node, callee.v, a.args))))

RECURSIVE pop_defers_discard(_, _)
\* pop_defers freeing the entries above marker without executing them
pop_defers_discard(m, marker) ==
    IF DeferTop(m) = marker THEN m
    ELSE pop_defers_discard([m EXCEPT !.interp.defer_stack = Tail(@)], marker)

\* pop_defers: pop and execute the entries above marker
pop_defers(m, marker) ==
    IF DeferTop(m) = marker THEN m
    ELSE LET entry == Head(m.interp.defer_stack)
             was_returning == m.interp.returning
             was_breaking == m.interp.breaking
             was_continuing == m.interp.continuing
             id == Len(m.trace) + 1
             m1 == [m EXCEPT !.interp.defer_stack = Tail(@),
                             !.interp.returning = FALSE,
                             !.interp.breaking = FALSE,
                             !.interp.continuing = FALSE] IN
             Bind(PushFrame(
                       Log(m1, [ev |-> "defer_run", defer |-> entry.id,
                                by |-> CurrentScope(m1),
                                executed |-> ~exec_skips(m1, entry.statement)]),
                       [kind |-> "defer", id |-> id]), LAMBDA m2 :
             Bind(PopFrame(exec(m2, entry.statement)), LAMBDA m3 :
             LET m4 == [m3 EXCEPT !.interp.returning = was_returning,
                              !.interp.breaking = was_breaking,
                              !.interp.continuing = was_continuing]
         IN  pop_defers(m4, marker)))

\* exec_block's loop from statement i
exec_block_loop(m, node, i) ==
    IF i > Len(node.statements) THEN m
    ELSE Bind(exec(m, node.statements[i]), LAMBDA m1 :
             IF m1.interp.returning \/ m1.interp.breaking
                \/ m1.interp.continuing \/ m1.interp.had_error
             THEN m1
             ELSE exec_block_loop(m1, node, i + 1))

exec_block(m, node) ==
    LET previous == m.interp.current IN
        Bind(env_create(m, previous), LAMBDA e :
        LET id == Len(e.m.trace) + 1 IN
        Bind(PushFrame(Log([e.m EXCEPT !.interp.current = e.e],
                            [ev |-> "block_enter", env |-> e.e,
                             previous |-> previous]),
                        [kind |-> "block", id |-> id]), LAMBDA m1 :
        Bind(DeferTop(m1), LAMBDA defer_marker :
        Bind(exec_block_loop(m1, node, 1), LAMBDA m2 :
        Bind(pop_defers(m2, defer_marker), LAMBDA m3 :
        Bind(env_decref(m3, m3.interp.current), LAMBDA m4 :
        LET m5 == [m4 EXCEPT !.interp.current = previous]
    IN  PopFrame(Log(m5, [ev |-> "block_exit", id |-> id,
                          error |-> m5.interp.had_error,
                          current |-> m5.interp.current]))))))))

exec_if(m, node) ==
    Bind(eval(m, node.condition), LAMBDA condition :
        LET m1 == condition.m
    IN  IF m1.interp.had_error THEN m1
        ELSE IF value_is_truthy(condition.v) THEN exec(m1, node.then_branch)
        ELSE IF node.else_branch.type # "NULL" THEN exec(m1, node.else_branch)
        ELSE m1)

\* exec_while; fuel bounds the iterations the model follows
exec_while(m, node, fuel) ==
    IF m.interp.had_error \/ fuel = 0 THEN m
    ELSE Bind(eval(m, node.condition), LAMBDA condition :
             LET m1 == condition.m
         IN  IF m1.interp.had_error THEN m1
             ELSE IF ~value_is_truthy(condition.v) THEN m1
             ELSE Bind(exec(m1, node.body), LAMBDA m2 :
                      IF m2.interp.returning THEN m2
                      ELSE IF m2.interp.breaking
                           THEN [m2 EXCEPT !.interp.breaking = FALSE]
                      ELSE LET m3 == [m2 EXCEPT !.interp.continuing = FALSE]
                           IN  exec_while(m3, node, fuel - 1)))

\* exec_for's loop from index i (0-based) of array arr
exec_for_loop(m, node, arr, i) ==
    IF i >= Len(m.heap[arr].elements) \/ m.interp.had_error THEN m
    ELSE Bind(env_set(m, m.interp.current, node.iterator_name,
                           m.heap[arr].elements[i + 1]).m, LAMBDA m1 :
             Bind(exec(m1, node.body), LAMBDA m2 :
             IF m2.interp.returning THEN m2
             ELSE IF m2.interp.breaking THEN [m2 EXCEPT !.interp.breaking = FALSE]
             ELSE LET m3 == [m2 EXCEPT !.interp.continuing = FALSE]
                  IN  exec_for_loop(m3, node, arr, i + 1)))

\* exec_for that leaves the loop's environment as the current one
exec_for_keeps_env(m, node) ==
    Bind(eval(m, node.iterable), LAMBDA iterable :
        LET m1 == iterable.m
        previous == m1.interp.current
    IN  IF m1.interp.had_error THEN m1
        ELSE IF ~IS_ARRAY(m1, iterable.v)
             THEN runtime_error(m1, node.line, "Can only iterate over arrays")
        ELSE Bind(env_create(m1, previous), LAMBDA e :
                 Bind(env_define([e.m EXCEPT !.interp.current = e.e], e.e,
                                  node.iterator_name, NIL_VAL, FALSE).m, LAMBDA m2 :
                 exec_for_loop(m2, node, AS_OBJ(iterable.v), 0))))

exec_for(m, node) ==
    Bind(eval(m, node.iterable), LAMBDA iterable :
        LET m1 == iterable.m
        previous == m1.interp.current
    IN  IF m1.interp.had_error THEN m1
        ELSE IF ~IS_ARRAY(m1, iterable.v)
             THEN runtime_error(m1, node.line, "Can only iterate over arrays")
        ELSE Bind(env_create(m1, previous), LAMBDA e :
                 Bind(env_define([e.m EXCEPT !.interp.current = e.e], e.e,
                                  node.iterator_name, NIL_VAL, FALSE).m, LAMBDA m2 :
                 Bind(exec_for_loop(m2, node, AS_OBJ(iterable.v), 0), LAMBDA m3 :
                 Bind(env_decref(m3, m3.interp.current), LAMBDA m4 :
                 [m4 EXCEPT !.interp.current = previous])))))

\* exec, case NODE_ASSIGNMENT, from the target on
exec_assign_target(m, node, value) ==
    LET target == node.target
    IN  IF target.type = "NODE_IDENTIFIER"
        THEN (Bind(env_is_const(m, m.interp.current, target.name), LAMBDA c :
                  IF c.is_const
                  THEN runtime_error(c.m, node.line, "Cannot assign to constant")
                  ELSE Bind(env_set(c.m, c.m.interp.current, target.name, value), LAMBDA s :
                           IF ~s.ok
                           THEN runtime_error(s.m, node.line, "Undefined variable")
                           ELSE s.m)))
        ELSE IF target.type = "NODE_INDEX"
        THEN (Bind(eval(m, target.object), LAMBDA object :
                  Bind(eval(object.m, target.index), LAMBDA index :
                  LET m2 == index.m
              IN  IF object.m.interp.had_error THEN object.m
                  ELSE IF m2.interp.had_error THEN m2
                  ELSE IF IS_ARRAY(m2, object.v)
                       THEN (IF ~IS_INT(index.v)
                             THEN runtime_error(m2, node.line,
                                                "Array index must be integer")
                             ELSE array_set(m2, AS_OBJ(object.v),
                                            int_cast(index.v), value))
                  ELSE IF IS_TABLE(m2, object.v)
                       THEN (IF ~IS_STRING(m2, index.v)
                             THEN runtime_error(m2, node.line,
                                                "Table key must be string")
                             ELSE table_set(m2, AS_OBJ(object.v), AS_OBJ(index.v),
                                            value, FALSE))
                  ELSE runtime_error(m2, node.line, "Cannot index type"))))
        ELSE IF target.type = "NODE_FIELD"
        THEN (Bind(eval(m, target.object), LAMBDA object :
                  IF object.m.interp.had_error THEN object.m
                  ELSE IF IS_TABLE(object.m, object.v)
                       THEN (Bind(string_create(object.m, target.field_name), LAMBDA key :
                                 Bind(table_set(key.m, AS_OBJ(object.v), key.o,
                                                 value, FALSE), LAMBDA m2 :
                                 obj_decref(m2, key.o))))
                  ELSE runtime_error(object.m, node.line, "Cannot set field on type")))
        ELSE runtime_error(m, node.line, "Invalid assignment target")

\* exec, case NODE_MATCH: whether the pattern of an arm matches value
\* match_pattern with a range pattern that includes its end
match_pattern_inclusive(m, pattern, value) ==
    IF pattern.type = "NODE_IDENTIFIER" /\ pattern.name = <<95>>
    THEN [m |-> m, matched |-> TRUE]
    ELSE IF pattern.type = "NODE_RANGE"
    THEN [m |-> m,
          matched |-> /\ IS_INT(value)
                      /\ AS_INT(value) >= pattern.start.value
                      /\ AS_INT(value) <= pattern.end.value]
    ELSE Bind(eval(m, pattern), LAMBDA pattern_val :
             [m |-> pattern_val.m,
              matched |-> value_equals(pattern_val.m, value, pattern_val.v)])

match_pattern(m, pattern, value) ==
    IF pattern.type = "NODE_IDENTIFIER" /\ pattern.name = <<95>>
    THEN [m |-> m, matched |-> TRUE]
    ELSE IF pattern.type = "NODE_RANGE"
    THEN (IF ~IS_INT(value) THEN [m |-> m, matched |-> FALSE]
          ELSE Bind(eval(m, pattern.start), LAMBDA start :
                   Bind(eval(start.m, pattern.end), LAMBDA end :
                   [m |-> end.m,
                    matched |-> /\ IS_INT(start.v) /\ IS_INT(end.v)
                                /\ AS_INT(value) >= AS_INT(start.v)
                                /\ AS_INT(value) < AS_INT(end.v)])))
    ELSE Bind(eval(m, pattern), LAMBDA pattern_val :
             [m |-> pattern_val.m,
              matched |-> /\ ~pattern_val.m.interp.had_error
                          /\ value_equals(pattern_val.m, value, pattern_val.v)])

\* exec, case NODE_MATCH: the loop over the arms from arm i
exec_match(m, node, value, i) ==
    IF i > Len(node.patterns) THEN m
    ELSE Bind(match_pattern(m, node.patterns[i], value), LAMBDA p :
             LET body == node.bodies[i]
             literal == node.patterns[i].type # "NODE_RANGE"
                        /\ ~(node.patterns[i].type = "NODE_IDENTIFIER"
                             /\ node.patterns[i].name = <<95>>)
         IN  IF literal /\ p.m.interp.had_error THEN p.m
             ELSE IF p.matched
                  THEN (IF body.type = "NODE_BLOCK" THEN exec(p.m, body)
                        ELSE Bind(eval(p.m, body), LAMBDA r :
                                 [r.m EXCEPT !.interp.last_value = r.v]))
             ELSE exec_match(p.m, node, value, i + 1))

\* exec, case NODE_PROGRAM: the loop from statement i
exec_program_loop(m, node, i) ==
    IF i > Len(node.statements) THEN m
    ELSE Bind(exec(m, node.statements[i]), LAMBDA m1 :
             IF m1.interp.had_error THEN m1
             ELSE exec_program_loop(m1, node, i + 1))

\* exec, case NODE_VAR_DECL and NODE_CONST_DECL
exec_var_decl(m, node) ==
    Bind(eval(m, node.initializer), LAMBDA value :
        LET m1 == value.m
    IN  IF m1.interp.had_error THEN m1
        ELSE Bind(env_define(m1, m1.interp.current, node.name, value.v,
                                 node.is_const), LAMBDA d :
                 Bind(Log(d.m, [ev |-> "declare", kind |-> node.type,
                                 name |-> node.name, env |-> m1.interp.current,
                                 value |-> value.v, is_const |-> node.is_const,
                                 ok |-> d.ok,
                                 before |-> Bindings(m1), after |-> Bindings(d.m)]), LAMBDA m2 :
                 IF ~d.ok
                 THEN runtime_error(m2, node.line, "Variable already defined")
                 ELSE m2)))

\* exec, case NODE_FN_DECL
exec_fn_decl(m, node) ==
    Bind(function_create(m, node.name, node.parameters, node.body,
                              m.interp.current), LAMBDA fn :
        Bind(env_incref(fn.m, m.interp.current), LAMBDA m1 :
        Bind(env_define(m1, m1.interp.current, node.name, OBJ_VAL(fn.o), FALSE), LAMBDA d :
        Log(d.m, [ev |-> "declare", kind |-> node.type, name |-> node.name,
                  env |-> m1.interp.current, value |-> OBJ_VAL(fn.o),
                  is_const |-> FALSE, ok |-> d.ok,
                  before |-> Bindings(m1), after |-> Bindings(d.m)]))))

\* exec, case NODE_ASSIGNMENT
exec_assignment(m, node) ==
    Bind(eval(m, node.value), LAMBDA value :
        LET m1 == value.m
    IN  IF m1.interp.had_error THEN m1
        ELSE Bind(exec_assign_target(m1, node, value.v), LAMBDA m2 :
                 IF node.target.type = "NODE_IDENTIFIER"
                 THEN Log(m2, [ev |-> "assign", name |-> node.target.name,
                               env |-> m1.interp.current, value |-> value.v,
                               error |-> m2.interp.had_error,
                               before |-> Bindings(m1), after |-> Bindings(m2)])
                 ELSE m2))

\* exec, case NODE_RETURN
exec_return(m, node) ==
    Bind(IF node.value.type # "NULL" THEN eval(m, node.value) ELSE NilResult(m), LAMBDA r :
        Log([r.m EXCEPT !.interp.return_value = r.v, !.interp.returning = TRUE],
            [ev |-> "return", call |-> CurrentCall(r.m), in_defer |-> InDefer(r.m),
             value |-> r.v, error |-> r.m.interp.had_error]))

\* exec, case NODE_EXPR_STMT
exec_expr_stmt(m, node) ==
    Bind(eval(m, node.operand), LAMBDA r :
        Log([r.m EXCEPT !.interp.last_value = r.v],
            [ev |-> "expr_stmt", call |-> CurrentCall(r.m),
             in_defer |-> InDefer(r.m), value |-> r.v,
             error |-> r.m.interp.had_error]))

exec(m, node) ==
    IF exec_skips(m, node) THEN m
    ELSE IF m.interp.returning \/ m.interp.breaking \/ m.interp.continuing THEN m
    ELSE Bind(Log(m, [ev |-> "stmt", type |-> node.type, line |-> node.line,
                           env |-> m.interp.current,
                           frame |-> IF m.frames = <<>> THEN 0
                                     ELSE m.frames[Len(m.frames)].id]), LAMBDA m0 :
             CASE node.type \in {"NODE_VAR_DECL", "NODE_CONST_DECL"} ->
                      exec_var_decl(m0, node)
               [] node.type = "NODE_ASSIGNMENT" -> exec_assignment(m0, node)
               [] node.type = "NODE_EXPR_STMT" -> exec_expr_stmt(m0, node)
               [] node.type = "NODE_BLOCK" -> exec_block(m0, node)
               [] node.type = "NODE_PROGRAM" -> exec_program_loop(m0, node, 1)
               [] node.type = "NODE_IF" -> exec_if(m0, node)
               [] node.type = "NODE_WHILE" -> exec_while(m0, node, MaxIter)
               [] node.type = "NODE_FOR" -> exec_for(m0, node)
               [] node.type = "NODE_RETURN" -> exec_return(m0, node)
               [] node.type = "NODE_BREAK" -> [m0 EXCEPT !.interp.breaking = TRUE]
               [] node.type = "NODE_CONTINUE" -> [m0 EXCEPT !.interp.continuing = TRUE]
               [] node.type = "NODE_FN_DECL" -> exec_fn_decl(m0, node)
               [] node.type = "NODE_MATCH" ->
                      Bind(eval(m0, node.value), LAMBDA value :
                          IF value.m.interp.had_error THEN value.m
                          ELSE exec_match(value.m, node, value.v, 1))
               [] node.type = "NODE_DEFER" -> push_defer(m0, node.statement)
               [] node.type = "NODE_C_BLOCK" ->
                      runtime_error(m0, node.line, "@c blocks not yet implemented")
               [] OTHER -> runtime_error(m0, node.line, "Unknown statement type"))

RECURSIVE destroy_defers(_)
\* interp_destroy's loop over the remaining defers
destroy_defers(m) ==
    IF m.interp.defer_stack = <<>> THEN m
    ELSE LET entry == Head(m.interp.defer_stack)
             id == Len(m.trace) + 1
             m1 == [m EXCEPT !.interp.defer_stack = Tail(@)] IN
             Bind( PushFrame(
                       Log(m1, [ev |-> "defer_run", defer |-> entry.id, by |-> 0,
                                executed |-> ~exec_skips(m1, entry.statement)
                                    /\ ~(m1.interp.returning \/ m1.interp.breaking
                                         \/ m1.interp.continuing)]),
                       [kind |-> "defer", id |-> id]), LAMBDA m2 :
             Bind(PopFrame(exec(m2, entry.statement)), LAMBDA m3 :
             destroy_defers(m3)))

interp_destroy(m) == env_decref(destroy_defers(m), m.interp.global)

---------------------------------------------------------------------------
(* Running a program (interp.c, interpret): interp_init, exec_program and  *)
(* interp_destroy.  The program is any sequence of at most MaxStmts        *)
(* statements of a menu; the statement of exec_program's loop index is     *)
(* chosen when the loop reaches it, and program holds those executed.      *)

MaxStmts == 4

InterpInit ==
    /\ InitMachine(interp_init(EmptyMachine))
    /\ program = <<>>
    /\ pc = "exec_program"
    /\ tut = NULL
    /\ rc0 = <<>>
    /\ parser = NULL
    /\ input = NULL
    /\ nops = 0
    /\ map = NULL
    /\ lx = NULL
    /\ tokens = NULL
    /\ storage = NULL

\* one iteration of exec_program's loop, on statement stmt
ExecStatement(stmt) ==
    /\ pc = "exec_program"
    /\ Len(program) < MaxStmts
    /\ ~interp.had_error
    /\ SetMachine(exec(Machine, stmt))
    /\ program' = Append(program, stmt)
    /\ UNCHANGED <<pc, tut, rc0, nops, parser, input, map, lx, tokens, storage>>

\* the end of exec_program's loop, and interp_destroy
Destroy ==
    /\ pc = "exec_program"
    /\ SetMachine(interp_destroy(Machine))
    /\ pc' = "destroyed"
    /\ UNCHANGED <<program, tut, rc0, nops, parser, input, map, lx, tokens, storage>>

\* names
N_x == <<120>>
N_y == <<121>>
N_c == <<99>>
N_f == <<102>>
N_g == <<103>>
N_h == <<104>>
N_k == <<107>>
N_i == <<105>>
N_mk == <<109, 107>>

\* x = n, and the call name() as an expression statement, on a line
AssignInt(name, n, line) ==
    ast_assignment(ast_identifier(name, line), ast_int_literal(n, line), line)
CallStmt(name, line) ==
    ast_expr_stmt(ast_call(ast_identifier(name, line), <<>>, line), line)
\* if true { stmts }: a block as a statement
IfTrue(stmts, line) ==
    ast_if(ast_bool_literal(TRUE, line), ast_block(stmts, line), NullNode, line)
DivByZero(line) ==
    ast_binary("TOKEN_SLASH", ast_int_literal(1, line), ast_int_literal(0, line), line)

---------------------------------------------------------------------------
(* Programs with defers.                                                   *)
(*  1  x := 0                                                              *)
(*  2  fn g() { return 9 }                                                 *)
(*  3  fn f() { defer g()  return 1 }                                      *)
(*  4  f()                                                                 *)
(*  5  if true { defer x = 1  defer x = 2  y := 1 / 0 }                    *)
(*  6  fn h() { defer return 5  if true { defer x = 3  return 2 }  x = 7 } *)
(*  7  h()                                                                 *)
(*  8  defer x = 4                                                         *)
(*  9  if true { defer defer x = 5  defer x = 6  x }                       *)
(* 10  for i in 0..2 { defer x = x + 1  continue }                         *)

DeferStmts ==
    { ast_var_decl(N_x, ast_int_literal(0, 1), FALSE, 1),
      ast_fn_decl(N_g, <<>>,
          ast_block(<<ast_return(ast_int_literal(9, 2), 2)>>, 2), 2),
      ast_fn_decl(N_f, <<>>,
          ast_block(<<ast_defer(CallStmt(N_g, 3), 3),
                      ast_return(ast_int_literal(1, 3), 3)>>, 3), 3),
      CallStmt(N_f, 4),
      IfTrue(<<ast_defer(AssignInt(N_x, 1, 5), 5),
               ast_defer(AssignInt(N_x, 2, 5), 5),
               ast_var_decl(N_y, DivByZero(5), FALSE, 5)>>, 5),
      ast_fn_decl(N_h, <<>>,
          ast_block(<<ast_defer(ast_return(ast_int_literal(5, 6), 6), 6),
                      IfTrue(<<ast_defer(AssignInt(N_x, 3, 6), 6),
                               ast_return(ast_int_literal(2, 6), 6)>>, 6),
                      AssignInt(N_x, 7, 6)>>, 6), 6),
      CallStmt(N_h, 7),
      ast_defer(AssignInt(N_x, 4, 8), 8),
      IfTrue(<<ast_defer(ast_defer(AssignInt(N_x, 5, 9), 9), 9),
               ast_defer(AssignInt(N_x, 6, 9), 9),
               ast_expr_stmt(ast_identifier(N_x, 9), 9)>>, 9),
      ast_for(N_i, ast_range(ast_int_literal(0, 10), ast_int_literal(2, 10), 10),
          ast_block(<<ast_defer(
                          ast_assignment(ast_identifier(N_x, 10),
                              ast_binary("TOKEN_PLUS", ast_identifier(N_x, 10),
                                         ast_int_literal(1, 10), 10), 10), 10),
                      ast_continue(10)>>, 10), 10) }

NextDefer ==
    \/ \E stmt \in DeferStmts : ExecStatement(stmt)
    \/ Destroy

SpecDefer == InterpInit /\ [][NextDefer]_vars

---------------------------------------------------------------------------
(* Programs with calls and closures.                                       *)
(*  1  fn g() { 7 }                                                        *)
(*  2  fn f() { x := g() }                                                 *)
(*  3  f()                                                                 *)
(*  4  fn mk() { c := 0  return [fn() { c = c + 1  c }, fn() { c }] }      *)
(*  5  k := mk()                                                           *)
(*  6  k[0]()                                                              *)
(*  7  k[1]()                                                              *)
(*  8  for i in 0..3 { k[0]() }                                            *)

\* the bodies of the two closures of mk: { c = c + 1  c } and { c }
IncBody ==
    ast_block(<<ast_assignment(ast_identifier(N_c, 4),
                    ast_binary("TOKEN_PLUS", ast_identifier(N_c, 4),
                               ast_int_literal(1, 4), 4), 4),
                ast_expr_stmt(ast_identifier(N_c, 4), 4)>>, 4)
GetBody == ast_block(<<ast_expr_stmt(ast_identifier(N_c, 4), 4)>>, 4)

\* k[n]() as an expression statement
CallElement(name, n, line) ==
    ast_expr_stmt(ast_call(ast_index(ast_identifier(name, line),
                                     ast_int_literal(n, line), line),
                           <<>>, line), line)

CallStmts ==
    { ast_fn_decl(N_g, <<>>,
          ast_block(<<ast_expr_stmt(ast_int_literal(7, 1), 1)>>, 1), 1),
      ast_fn_decl(N_f, <<>>,
          ast_block(<<ast_var_decl(N_x, ast_call(ast_identifier(N_g, 2), <<>>, 2),
                                   FALSE, 2)>>, 2), 2),
      CallStmt(N_f, 3),
      ast_fn_decl(N_mk, <<>>,
          ast_block(<<ast_var_decl(N_c, ast_int_literal(0, 4), FALSE, 4),
                      ast_return(ast_array(<<ast_lambda(<<>>, IncBody, 4),
                                             ast_lambda(<<>>, GetBody, 4)>>, 4),
                                 4)>>, 4), 4),
      ast_var_decl(N_k, ast_call(ast_identifier(N_mk, 5), <<>>, 5), FALSE, 5),
      CallElement(N_k, 0, 6),
      CallElement(N_k, 1, 7),
      ast_for(N_i, ast_range(ast_int_literal(0, 8), ast_int_literal(3, 8), 8),
          ast_block(<<CallElement(N_k, 0, 8)>>, 8), 8) }

NextCall ==
    \/ \E stmt \in CallStmts : ExecStatement(stmt)
    \/ Destroy

SpecCall == InterpInit /\ [][NextCall]_vars

---------------------------------------------------------------------------
(* Programs with declarations and assignments.                             *)
(*  1  x := 1                                                              *)
(*  2  x :: 2                                                              *)
(*  3  x = 3                                                               *)
(*  4  fn x() { }                                                          *)
(*  5  if true { x := 4  x = 5 }                                           *)
(*  6  if true { x = 6 }                                                   *)
(*  7  if true { x :: 7  x = 8 }                                           *)
(*  8  fn print() { }                                                      *)
(*  9  len = 1                                                             *)
(* 10  fn f() { x = 9  y := 1  y = 2 }                                     *)
(* 11  f()                                                                 *)

ScopeStmts ==
    { ast_var_decl(N_x, ast_int_literal(1, 1), FALSE, 1),
      ast_var_decl(N_x, ast_int_literal(2, 2), TRUE, 2),
      AssignInt(N_x, 3, 3),
      ast_fn_decl(N_x, <<>>, ast_block(<<>>, 4), 4),
      IfTrue(<<ast_var_decl(N_x, ast_int_literal(4, 5), FALSE, 5),
               AssignInt(N_x, 5, 5)>>, 5),
      IfTrue(<<AssignInt(N_x, 6, 6)>>, 6),
      IfTrue(<<ast_var_decl(N_x, ast_int_literal(7, 7), TRUE, 7),
               AssignInt(N_x, 8, 7)>>, 7),
      ast_fn_decl(N_print, <<>>, ast_block(<<>>, 8), 8),
      AssignInt(N_len, 1, 9),
      ast_fn_decl(N_f, <<>>,
          ast_block(<<AssignInt(N_x, 9, 10),
                      ast_var_decl(N_y, ast_int_literal(1, 10), FALSE, 10),
                      AssignInt(N_y, 2, 10)>>, 10), 10),
      CallStmt(N_f, 11) }

NextScope ==
    \/ \E stmt \in ScopeStmts : ExecStatement(stmt)
    \/ Destroy

SpecScope == InterpInit /\ [][NextScope]_vars

---------------------------------------------------------------------------
(* Properties of the runs, read off the trace.                             *)

Events(kind) == {i \in 1..Len(trace) : trace[i].ev = kind}

\* the executions of the defer registered by event r
DeferRuns(r) == {i \in Events("defer_run") : trace[i].defer = r}
\* the defers registered by the block or call entered at event b
DefersOf(b) == {r \in Events("defer_reg") : trace[r].owner = b}

\* C1: when a block execution ends without a runtime error, each statement
\* deferred during it has run exactly once, executed by that block, after
\* every statement of the block and before the block's exit (for a function
\* body: before the call's exit); whenever one runs no defer the block
\* registered later is still pending (reverse order); and the block runs no
\* defer that another scope registered.
C1_DefersRunAtBlockExit ==
    \A x \in Events("block_exit") :
        ~trace[x].error =>
            LET b == trace[x].id
            IN  /\ \A r \in DefersOf(b) :
                      /\ Cardinality(DeferRuns(r)) = 1
                      /\ \A i \in DeferRuns(r) :
                            /\ r < i /\ i < x
                            /\ trace[i].executed
                            /\ trace[i].by = b
                            /\ \A s \in Events("stmt") : trace[s].frame = b => s < i
                            /\ \A r2 \in DefersOf(b) : \A i2 \in DeferRuns(r2) :
                                  r < r2 /\ r2 < i => i2 < i
                            /\ \A c \in Events("call_exit") :
                                  (trace[c].id < b /\ x < c) => i < c
                /\ \A i \in Events("defer_run") :
                      trace[i].by = b => trace[i].defer \in DefersOf(b)

\* a block that registered two defers has ended without error, its defers
\* run in the reverse order
C1_Witness ==
    \E x \in Events("block_exit") :
        /\ ~trace[x].error
        /\ \E r1, r2 \in DefersOf(trace[x].id) :
              /\ r1 < r2
              /\ \E i1 \in DeferRuns(r1), i2 \in DeferRuns(r2) : i2 < i1 /\ i1 < x

\* C2: a call whose body executed `return v` returns v, whatever the
\* deferred statements that ran after the return did.
C2_DeferKeepsReturnValue ==
    \A x \in Events("call_exit") :
        \A i \in Events("return") :
            (/\ trace[i].call = trace[x].id
             /\ ~trace[i].in_defer
             /\ i < x
             /\ ~trace[x].error)
            => trace[x].result = trace[i].value

\* C3: when a block ends with a runtime error raised in it, every defer
\* the block registered before the error has been executed by then.
C3_DefersRunOnError ==
    \A x \in Events("block_exit") :
        trace[x].error =>
            \A r \in DefersOf(trace[x].id) :
                (\E e \in Events("error") : r < e /\ e < x)
                => \E i \in DeferRuns(r) : trace[i].executed /\ i < x

FirstError == CHOOSE e \in Events("error") : \A e2 \in Events("error") : e <= e2

\* C5: after the first runtime error no statement is executed, no function
\* or native is called, no binding of a living environment is created or
\* changed, no environment is created, the error flag stays set and the
\* message and line stay those of the first error.
C5_NoEffectAfterError ==
    Events("error") # {} =>
        LET e == FirstError
            now == Bindings(Machine)
        IN  /\ interp.had_error
            /\ interp.error_message = trace[e].message
            /\ interp.error_line = trace[e].line
            /\ \A i \in (e + 1)..Len(trace) :
                  /\ trace[i].ev \notin {"stmt", "call_enter", "native", "declare",
                                         "defer_reg", "block_enter", "error",
                                         "print"}
                  /\ trace[i].ev = "defer_run" => ~trace[i].executed
                  /\ trace[i].ev = "assign" =>
                        i = e + 1 /\ trace[i].after = trace[e].bindings
            /\ Len(envs) = Len(trace[e].bindings)
            /\ \A env \in 1..Len(envs) :
                  now[env].live =>
                      /\ trace[e].bindings[env].live
                      /\ now[env].vars = trace[e].bindings[env].vars

\* a runtime error was raised while defers were pending, and the run ended
C5_Witness ==
    /\ Events("error") # {}
    /\ pc = "destroyed"
    /\ \E i \in Events("defer_run") : i > FirstError /\ ~trace[i].executed

MaxOf(S) == CHOOSE i \in S : \A j \in S : j <= i

\* C4: a call that ends without an explicit return and without error
\* results in the value of the last expression statement executed in the
\* call's own body, and in nil when the body executed none.
C4_ImplicitReturn ==
    \A x \in Events("call_exit") :
        (~trace[x].explicit /\ ~trace[x].error) =>
            LET es == {i \in Events("expr_stmt") : trace[i].call = trace[x].id}
            IN  trace[x].result = IF es = {} THEN NIL_VAL ELSE trace[MaxOf(es)].value

\* the calls completed by event x of functions with this body that captured
\* environment e
CallsDone(body, e, x) ==
    {c \in Events("call_exit") :
        /\ c <= x
        /\ heap[trace[c].fn].body = body
        /\ heap[trace[c].fn].closure = e}

\* C6: the environment a function captured is alive as long as the function
\* is; the n-th call of a counter closure { c = c + 1  c } over c := 0
\* results in n; and a closure { c } over the same environment results in
\* the number of calls of the counter made before.
C6_ClosureSharesEnvironment ==
    /\ \A o \in 1..Len(heap) :
          (heap[o].type = "OBJ_FUNCTION" /\ heap[o].freed = 0) =>
              /\ envs[heap[o].closure].freed = 0
              /\ envs[heap[o].closure].ref_count > 0
    /\ \A x \in Events("call_exit") :
          LET fn == heap[trace[x].fn]
          IN  /\ fn.body = IncBody =>
                    trace[x].result =
                        INT_VAL(Cardinality(CallsDone(IncBody, fn.closure, x)))
              /\ fn.body = GetBody =>
                    trace[x].result =
                        INT_VAL(Cardinality(CallsDone(IncBody, fn.closure, x)))

\* the counter closure was called three times and the reading closure after
C6_Witness ==
    \E x \in Events("call_exit") :
        /\ heap[trace[x].fn].body = GetBody
        /\ trace[x].result = INT_VAL(3)
        /\ envs[heap[trace[x].fn].closure].ref_count > 0

\* whether name is bound in environment e in the bindings b
BoundIn(b, e, name) == \E v \in b[e].vars : v.name = name

\* C7: a declaration of a name that is bound in the current scope raises a
\* runtime error and changes no binding; a declaration of a name that is
\* not adds the binding to the current scope and changes no other one.
C7_DuplicateDeclaration ==
    \A d \in Events("declare") :
        LET ev == trace[d]
        IN  IF BoundIn(ev.before, ev.env, ev.name)
            THEN /\ d < Len(trace)
                 /\ trace[d + 1].ev = "error"
                 /\ ev.after = ev.before
            ELSE /\ ev.after =
                       [ev.before EXCEPT ![ev.env].vars =
                           @ \cup {[name |-> ev.name, value |-> ev.value,
                                    is_const |-> ev.is_const]}]
                 /\ d < Len(trace) => trace[d + 1].ev # "error"

RECURSIVE BindingEnv(_, _, _)
\* the innermost environment of the chain from e that binds name in the
\* bindings b, or NULL
BindingEnv(b, e, name) ==
    IF e = NULL THEN NULL
    ELSE IF BoundIn(b, e, name) THEN e
    ELSE BindingEnv(b, envs[e].enclosing, name)

\* C8: an assignment to a name whose innermost binding is not const sets
\* the value of that binding and changes nothing else; one to a name whose
\* innermost binding is const, or that is unbound, raises an error and
\* changes no binding; and a const binding of a living environment has the
\* value it was defined with and its const flag.
C8_AssignInnermost ==
    /\ \A a \in Events("assign") :
          LET ev == trace[a]
              t == BindingEnv(ev.before, ev.env, ev.name)
              old == CHOOSE v \in ev.before[t].vars : v.name = ev.name
          IN  IF t # NULL /\ ~old.is_const
              THEN /\ ~ev.error
                   /\ ev.after =
                          [ev.before EXCEPT ![t].vars =
                              (@ \ {old}) \cup {[old EXCEPT !.value = ev.value]}]
              ELSE /\ ev.error
                   /\ ev.after = ev.before
    /\ \A d \in Events("declare") :
          (trace[d].ok /\ trace[d].is_const /\ envs[trace[d].env].freed = 0) =>
              [name |-> trace[d].name, value |-> trace[d].value, is_const |-> TRUE]
                  \in EnvBindings(Machine, trace[d].env)

\* an assignment in an inner scope has set a binding of an enclosing scope,
\* and an assignment to a const binding that shadows has failed
C8_Witness ==
    /\ \E a \in Events("assign") :
          /\ ~trace[a].error
          /\ BindingEnv(trace[a].before, trace[a].env, trace[a].name)
                 \notin {NULL, trace[a].env}
    /\ \E a \in Events("assign") :
          /\ trace[a].error
          /\ BindingEnv(trace[a].before, trace[a].env, trace[a].name) # NULL

RECURSIVE EnvChain(_)
\* the environments of the chain from e
EnvChain(e) == IF e = NULL THEN {} ELSE {e} \cup EnvChain(envs[e].enclosing)

\* the objects that object o refers to
ObjRefs(o) ==
    CASE heap[o].type = "OBJ_ARRAY" ->
            {AS_OBJ(heap[o].elements[i]) :
                i \in {j \in 1..Len(heap[o].elements) : IS_OBJ(heap[o].elements[j])}}
      [] heap[o].type = "OBJ_TABLE" ->
            {heap[o].entries[i].key :
                i \in {j \in 1..Len(heap[o].entries) : heap[o].entries[j].key # NULL}}
            \cup {AS_OBJ(heap[o].entries[i].value) :
                    i \in {j \in 1..Len(heap[o].entries) :
                              /\ heap[o].entries[j].key # NULL
                              /\ IS_OBJ(heap[o].entries[j].value)}}
      [] heap[o].type = "OBJ_FUNCTION" ->
            {envs[e].variables : e \in EnvChain(heap[o].closure)}
      [] OTHER -> {}

RECURSIVE ReachableFrom(_)
ReachableFrom(S) ==
    LET T == S \cup UNION {ObjRefs(o) : o \in S}
    IN  IF T = S THEN S ELSE ReachableFrom(T)

\* the objects reachable from the root environment, the current environment
\* and the values the evaluator holds
Reachable ==
    ReachableFrom(
        {envs[e].variables : e \in EnvChain(interp.global) \cup EnvChain(interp.current)}
        \cup {AS_OBJ(v) : v \in {w \in {interp.return_value, interp.last_value} :
                                    IS_OBJ(w)}})

\* C9: no object is freed twice; after interp_destroy every object of the
\* heap has been freed; and while the program runs every reachable object
\* has a positive ref-count.
C9_AllObjectsFreedOnce ==
    /\ \A o \in 1..Len(heap) : heap[o].freed <= 1
    /\ pc = "destroyed" => \A o \in 1..Len(heap) : heap[o].freed = 1
    /\ pc = "exec_program" => \A o \in Reachable : heap[o].ref_count > 0

---------------------------------------------------------------------------
(* The table specification: any sequence of table_set and table_delete on  *)
(* one table, with interned keys of which "a", "i" and "y" hash to the     *)
(* same slot of an 8-entry table and "b" to the next one.                  *)

MaxOps == 5

TKeyNames == <<<<97>>, <<105>>, <<98>>>>

RECURSIVE create_strings(_, _, _)
\* string_create for names[i..]; the machine after them
create_strings(m, names, i) ==
    IF i > Len(names) THEN m
    ELSE create_strings(string_create(m, names[i]).m, names, i + 1)

\* the key strings, one array to store as a value, and the empty table
TableMachine ==
    LET m1 == create_strings(EmptyMachine, TKeyNames, 1)
        a == array_create(m1)
    IN  table_create(a.m)

TKeys == {o \in 1..Len(TableMachine.m.heap) :
             /\ TableMachine.m.heap[o].type = "OBJ_STRING"
             /\ \E i \in 1..Len(TKeyNames) : TableMachine.m.heap[o].chars = TKeyNames[i]}

TArray == CHOOSE o \in 1..Len(TableMachine.m.heap) :
              TableMachine.m.heap[o].type = "OBJ_ARRAY"

TValues == {NIL_VAL, INT_VAL(1), OBJ_VAL(TArray)}

TableInit ==
    /\ InitMachine(TableMachine.m)
    /\ tut = TableMachine.o
    /\ rc0 = [o \in 1..Len(TableMachine.m.heap) |-> TableMachine.m.heap[o].ref_count]
    /\ parser = NULL
    /\ input = NULL
    /\ nops = 0
    /\ program = <<>>
    /\ pc = "table"
    /\ map = NULL
    /\ lx = NULL
    /\ tokens = NULL
    /\ storage = NULL

TableSet(k, v) ==
    /\ nops < MaxOps
    /\ SetMachine(table_set(Machine, tut, k, v, FALSE))
    /\ nops' = nops + 1
    /\ UNCHANGED <<program, pc, tut, rc0, parser, input, map, lx, tokens, storage>>

TableDelete(k) ==
    /\ nops < MaxOps
    /\ SetMachine(table_delete(Machine, tut, k))
    /\ nops' = nops + 1
    /\ UNCHANGED <<program, pc, tut, rc0, parser, input, map, lx, tokens, storage>>

TableNext ==
    \/ \E k \in TKeys, v \in TValues : TableSet(k, v)
    \/ \E k \in TKeys : TableDelete(k)

SpecTable == TableInit /\ [][TableNext]_vars

\* the live entries of the table under test that store object o, as key or value
LiveRefs(o) ==
    LET es == heap[tut].entries
    IN  Cardinality({i \in 1..Len(es) : es[i].key = o})
        + Cardinality({i \in 1..Len(es) :
                          es[i].key # NULL /\ es[i].value = OBJ_VAL(o)})

\* C10: after any sequence of table_set and table_delete on one table, the
\* references the table holds on each object (its ref-count now minus its
\* ref-count before the first call) are as many as the live entries storing it.
C10_TableRefsBalanced ==
    \A o \in DOMAIN rc0 : o # tut => heap[o].ref_count - rc0[o] = LiveRefs(o)

---------------------------------------------------------------------------
(* The string specification: any sequence of string_create and             *)
(* string_concat from the empty intern table; tut is the string the last   *)
(* call returned.  The seventh distinct string makes the intern table grow.*)

MaxStrOps == 7

\* the arguments of string_create: "", "a", "b", "ab"
SChars == {<<>>, <<97>>, <<98>>, <<97, 98>>}

\* the strings of the runs: those of at most two bytes over "a" and "b"
SUniverse ==
    SChars \cup {<<97, 97>>, <<98, 97>>, <<98, 98>>}

Strings == {o \in 1..Len(heap) : heap[o].type = "OBJ_STRING"}

StringInit ==
    /\ InitMachine(EmptyMachine)
    /\ tut = NULL
    /\ rc0 = <<>>
    /\ parser = NULL
    /\ input = NULL
    /\ nops = 0
    /\ program = <<>>
    /\ pc = "strings"
    /\ map = NULL
    /\ lx = NULL
    /\ tokens = NULL
    /\ storage = NULL

StringCreate(chars) ==
    /\ nops < MaxStrOps
    /\ LET r == string_create(Machine, chars)
       IN  SetMachine(r.m) /\ tut' = r.o
    /\ nops' = nops + 1
    /\ UNCHANGED <<program, pc, rc0, parser, input, map, lx, tokens, storage>>

StringConcat(a, b) ==
    /\ nops < MaxStrOps
    /\ (heap[a].chars \o heap[b].chars) \in SUniverse
    /\ LET r == string_concat(Machine, a, b)
       IN  SetMachine(r.m) /\ tut' = r.o
    /\ nops' = nops + 1
    /\ UNCHANGED <<program, pc, rc0, parser, input, map, lx, tokens, storage>>

StringNext ==
    \/ \E chars \in SChars : StringCreate(chars)
    \/ \E a \in Strings, b \in Strings : StringConcat(a, b)

SpecString == StringInit /\ [][StringNext]_vars

\* the string objects of the heap h whose bytes are chars
WithChars(h, chars) ==
    {o \in 1..Len(h) : h[o].type = "OBJ_STRING" /\ h[o].chars = chars}

\* a call that returned a string whose bytes were already those of an object
\* returned that object, with one more reference, and allocated nothing
ReturnsInterned ==
    \A o \in WithChars(heap, heap'[tut'].chars) :
        /\ tut' = o
        /\ Len(heap') = Len(heap)
        /\ heap'[o].ref_count = heap[o].ref_count + 1

\* C11: after any sequence of string_create and string_concat calls no two
\* string objects have the same bytes, and a call whose result has the bytes
\* of an existing object returns that object with its ref-count incremented
\* and allocates nothing.
C11_StringsInterned ==
    /\ [](\A a \in Strings, b \in Strings : heap[a].chars = heap[b].chars => a = b)
    /\ [][ReturnsInterned]_vars

\* a call returned the string "ab" a second time, while the intern table
\* holds other strings
C11_Witness ==
    /\ pc = "strings"
    /\ tut # NULL
    /\ heap[tut].chars = <<97, 98>>
    /\ heap[tut].ref_count > 3
    /\ heap[string_table].count > 3

---------------------------------------------------------------------------
(* The load specification: any sequence of table_set and table_delete on   *)
(* one table with seven keys, enough to fill an 8-entry table to its load  *)
(* limit and make it grow.  "a" and "i" hash to the same slot.             *)

MaxLoadOps == 7

LKeyNames == <<<<97>>, <<105>>, <<98>>, <<99>>, <<100>>, <<101>>, <<102>>>>

LoadMachine == table_create(create_strings(EmptyMachine, LKeyNames, 1))

LKeys == {o \in 1..Len(LoadMachine.m.heap) :
             /\ LoadMachine.m.heap[o].type = "OBJ_STRING"
             /\ \E i \in 1..Len(LKeyNames) : LoadMachine.m.heap[o].chars = LKeyNames[i]}

LoadInit ==
    /\ InitMachine(LoadMachine.m)
    /\ tut = LoadMachine.o
    /\ rc0 = <<>>
    /\ parser = NULL
    /\ input = NULL
    /\ nops = 0
    /\ program = <<>>
    /\ pc = "load"
    /\ map = NULL
    /\ lx = NULL
    /\ tokens = NULL
    /\ storage = NULL

LoadSet(k, v) ==
    /\ nops < MaxLoadOps
    /\ SetMachine(table_set(Machine, tut, k, v, FALSE))
    /\ nops' = nops + 1
    /\ UNCHANGED <<program, pc, tut, rc0, parser, input, map, lx, tokens, storage>>

LoadDelete(k) ==
    /\ nops < MaxLoadOps
    /\ SetMachine(table_delete(Machine, tut, k))
    /\ nops' = nops + 1
    /\ UNCHANGED <<program, pc, tut, rc0, parser, input, map, lx, tokens, storage>>

LoadNext ==
    \/ \E k \in LKeys, v \in {NIL_VAL, INT_VAL(1)} : LoadSet(k, v)
    \/ \E k \in LKeys : LoadDelete(k)

SpecLoad == LoadInit /\ [][LoadNext]_vars

Tables == {o \in 1..Len(heap) : heap[o].type = "OBJ_TABLE"}

\* the slots of table t that hold a key, a tombstone, nothing
LiveSlots(t) == {i \in 1..Len(heap[t].entries) : heap[t].entries[i].key # NULL}
Tombstones(t) ==
    {i \in 1..Len(heap[t].entries) :
        heap[t].entries[i].key = NULL /\ ~IS_NIL(heap[t].entries[i].value)}
EmptySlots(t) ==
    {i \in 1..Len(heap[t].entries) :
        heap[t].entries[i].key = NULL /\ IS_NIL(heap[t].entries[i].value)}

\* C12: after any sequence of table_set and table_delete every table has
\* count <= 0.75 * capacity, where count is its live entries plus its
\* tombstones; so a table with slots has an empty slot, and the probe loop
\* of find_entry ends for every key.
C12_LoadFactor ==
    \A t \in Tables :
        /\ 4 * heap[t].count <= 3 * heap[t].capacity
        /\ heap[t].count = Cardinality(LiveSlots(t)) + Cardinality(Tombstones(t))
        /\ heap[t].capacity > 0 => EmptySlots(t) # {}
        /\ \A k \in LKeys :
               find_entry(Machine, heap[t].entries, heap[t].capacity, k) # -2

\* the table under test is at its load limit, 6 of 8, and one of the 6 is a
\* tombstone
C12_Witness ==
    /\ pc = "load"
    /\ heap[tut].capacity = 8
    /\ heap[tut].count = 6
    /\ Tombstones(tut) # {}

---------------------------------------------------------------------------
(* Programs that call with matching and with wrong argument counts.        *)
(*  1  fn f(x, y) { x }            8  print()                              *)
(*  2  f(1, 2)                     9  print(1, 2)                          *)
(*  3  f(1)                       10  fn g(x, x) { x }                     *)
(*  4  f(1, 2, 3)                 11  g(1, 2)                              *)
(*  5  len(1)                     12  fn mk(x) { return fn(y) { x } }      *)
(*  6  len()                      13  h := mk(1)                           *)
(*  7  len(1, 2)                  14  h(2)                                 *)

\* name(n1, n2, ..) with integer arguments ns, as an expression
CallInts(name, ns, line) ==
    ast_call(ast_identifier(name, line),
             [i \in 1..Len(ns) |-> ast_int_literal(ns[i], line)], line)

\* fn name(params) { result }
FnReturning(name, params, result, line) ==
    ast_fn_decl(name, params,
        ast_block(<<ast_expr_stmt(ast_identifier(result, line), line)>>, line), line)

ArityStmts ==
    { FnReturning(N_f, <<N_x, N_y>>, N_x, 1),
      ast_expr_stmt(CallInts(N_f, <<1, 2>>, 2), 2),
      ast_expr_stmt(CallInts(N_f, <<1>>, 3), 3),
      ast_expr_stmt(CallInts(N_f, <<1, 2, 3>>, 4), 4),
      ast_expr_stmt(CallInts(N_len, <<1>>, 5), 5),
      ast_expr_stmt(CallInts(N_len, <<>>, 6), 6),
      ast_expr_stmt(CallInts(N_len, <<1, 2>>, 7), 7),
      ast_expr_stmt(CallInts(N_print, <<>>, 8), 8),
      ast_expr_stmt(CallInts(N_print, <<1, 2>>, 9), 9),
      FnReturning(N_g, <<N_x, N_x>>, N_x, 10),
      ast_expr_stmt(CallInts(N_g, <<1, 2>>, 11), 11),
      ast_fn_decl(N_mk, <<N_x>>,
          ast_block(<<ast_return(
              ast_lambda(<<N_y>>,
                  ast_block(<<ast_expr_stmt(ast_identifier(N_x, 12), 12)>>, 12),
                  12), 12)>>, 12), 12),
      ast_var_decl(N_h, CallInts(N_mk, <<1>>, 13), FALSE, 13),
      ast_expr_stmt(CallInts(N_h, <<2>>, 14), 14) }

NextArity ==
    \/ \E stmt \in ArityStmts : ExecStatement(stmt)
    \/ Destroy

SpecArity == InterpInit /\ [][NextArity]_vars

\* the object called by the call event i, and whether the argument count of
\* the call differs from its arity
Callee(i) == heap[AS_OBJ(trace[i].callee)]
WrongCount(i) == Len(trace[i].args) # Callee(i).arity

\* the call i raised the arity error and invoked nothing
Refused(i) ==
    /\ trace[i + 1].ev = "error"
    /\ trace[i + 1].message = "Expected arguments"
    /\ \A j \in (i + 1)..Len(trace) : trace[j].ev \notin {"native", "call_enter"}

\* the call i of a script function entered the body in a new environment whose
\* parent is the captured one and in which parameter k is bound to argument k
BoundPositionally(i) ==
    LET fn == Callee(i)
        enter == trace[i + 1]
    IN  /\ enter.ev = "call_enter"
        /\ enter.fn = AS_OBJ(trace[i].callee)
        /\ enter.enclosing = fn.closure
        /\ enter.env \notin {trace[j].env : j \in {k \in Events("call_enter") : k < i}}
                             \cup {fn.closure, interp.global}
        /\ \A k \in 1..fn.arity :
               [name |-> fn.params[k], value |-> trace[i].args[k],
                is_const |-> FALSE] \in enter.bound
        /\ Cardinality(enter.bound) <= fn.arity

\* C13: a call of a script function or of a fixed-arity native with an
\* argument count different from the arity raises a runtime error and invokes
\* nothing; a variadic native is invoked for every argument count; and a
\* script function called with a matching count has its parameters bound
\* positionally in a fresh child of its captured environment.
C13_ArityEnforced ==
    \A i \in Events("call") :
        LET callee == trace[i].callee
        IN  /\ IS_NATIVE(Machine, callee) /\ Callee(i).arity >= 0 /\ WrongCount(i)
                   => Refused(i)
            /\ IS_NATIVE(Machine, callee) /\ Callee(i).arity < 0
                   => /\ trace[i + 1].ev = "native"
                      /\ trace[i + 1].name = Callee(i).name
                      /\ trace[i + 1].args = trace[i].args
            /\ IS_FUNCTION(Machine, callee) /\ WrongCount(i) => Refused(i)
            /\ IS_FUNCTION(Machine, callee) /\ ~WrongCount(i) => BoundPositionally(i)

---------------------------------------------------------------------------
(* Programs that read and assign the elements of an array.                 *)
(*  1  a := [10, 20, 30]                                                   *)
(*  2  push(a, 40)                                                         *)
(*  3  a[i]         for i in 0, 2, 3, 4, -1, 2^32, 2^32 + 1, 2^32 + 5      *)
(*  4  a[i] = 7     for the same i                                         *)

N_a == <<97>>

\* the indexes of the programs, hi * 2^32 + lo
Indexes ==
    {[hi |-> 0, lo |-> 0], [hi |-> 0, lo |-> 2], [hi |-> 0, lo |-> 3],
     [hi |-> 0, lo |-> 4], [hi |-> 0, lo |-> -1],
     [hi |-> 1, lo |-> 0], [hi |-> 1, lo |-> 1], [hi |-> 1, lo |-> 5]}

\* the expression a[i]; a negative index is written with the unary minus
ElementAt(ix, line) ==
    ast_index(ast_identifier(N_a, line),
              IF ix.lo < 0
              THEN ast_unary("TOKEN_MINUS", ast_int_literal(-ix.lo, line), line)
              ELSE ast_wide_literal(ix.hi, ix.lo, line), line)

ReadAt(ix) == ast_expr_stmt(ElementAt(ix, 3), 3)
WriteAt(ix) == ast_assignment(ElementAt(ix, 4), ast_int_literal(7, 4), 4)

IndexStmts ==
    { ast_var_decl(N_a, ast_array(<<ast_int_literal(10, 1), ast_int_literal(20, 1),
                                    ast_int_literal(30, 1)>>, 1), FALSE, 1),
      ast_expr_stmt(ast_call(ast_identifier(N_push, 2),
                             <<ast_identifier(N_a, 2), ast_int_literal(40, 2)>>, 2), 2) }
    \cup {ReadAt(ix) : ix \in Indexes} \cup {WriteAt(ix) : ix \in Indexes}

NextIndex ==
    \/ \E stmt \in IndexStmts : ExecStatement(stmt)
    \/ Destroy

SpecIndex == InterpInit /\ [][NextIndex]_vars

\* the arrays of the heap; the programs have at most one, the value of a
Arrays == {o \in 1..Len(heap) : heap[o].type = "OBJ_ARRAY"}

\* the index ix is one of the n elements
InBounds(ix, n) == ix.hi = 0 /\ 0 <= ix.lo /\ ix.lo < n

\* this step raised the out-of-bounds error
OutOfBoundsError ==
    /\ interp'.had_error
    /\ interp'.error_message = "Array index out of bounds"

\* C14: reading a[i] and assigning a[i] = v with i < 0 or i >= n, n the count
\* of the array, also for an i at or above 2^31 whose low 32 bits are below
\* n, raise the out-of-bounds error and leave the array unchanged; with
\* 0 <= i < n the read returns element i and the write replaces exactly
\* element i.
C14_IndexChecked ==
    [][\A a \in Arrays, ix \in Indexes :
          LET n == Len(heap[a].elements)
              executed == IF Len(program') > Len(program)
                          THEN program'[Len(program')] ELSE NullNode
          IN  /\ executed = ReadAt(ix) =>
                    /\ heap'[a].elements = heap[a].elements
                    /\ IF InBounds(ix, n)
                       THEN /\ ~interp'.had_error
                            /\ interp'.last_value = heap[a].elements[ix.lo + 1]
                       ELSE OutOfBoundsError
              /\ executed = WriteAt(ix) =>
                    IF InBounds(ix, n)
                    THEN /\ ~interp'.had_error
                         /\ heap'[a].elements =
                                [heap[a].elements EXCEPT ![ix.lo + 1] = INT_VAL(7)]
                    ELSE /\ OutOfBoundsError
                         /\ heap'[a].elements = heap[a].elements]_vars

---------------------------------------------------------------------------
(* Programs that loop over ranges: at most MaxRangeStmts statements of     *)
(*     for i in s..e { print(i) }        s, e in -1, 0, 2                  *)
(*     for i in a..a-1 { print(i) }      a in -1, 0, 2                     *)

MaxRangeStmts == 2

RangeBounds == {-1, 0, 2}

\* the literal n; a negative one is written with the unary minus
IntExpr(n, line) ==
    IF n < 0 THEN ast_unary("TOKEN_MINUS", ast_int_literal(-n, line), line)
    ELSE ast_int_literal(n, line)

\* for i in start..end { print(i) }
ForPrint(start, end, line) ==
    ast_for(N_i, ast_range(start, end, line),
        ast_block(<<ast_expr_stmt(ast_call(ast_identifier(N_print, line),
                                           <<ast_identifier(N_i, line)>>, line),
                                  line)>>, line), line)

ForRange(s, e) == ForPrint(IntExpr(s, 1), IntExpr(e, 1), 1)
ForCrossed(a) ==
    ForPrint(IntExpr(a, 2),
             ast_binary("TOKEN_MINUS", IntExpr(a, 2), ast_int_literal(1, 2), 2), 2)

RangeStmts ==
    {ForRange(s, e) : s \in RangeBounds, e \in RangeBounds}
    \cup {ForCrossed(a) : a \in RangeBounds}

\* one iteration of exec_program's loop in these programs
RangeStatement(stmt) ==
    /\ Len(program) < MaxRangeStmts
    /\ ExecStatement(stmt)

NextRange ==
    \/ \E stmt \in RangeStmts : RangeStatement(stmt)
    \/ Destroy

SpecRange == InterpInit /\ [][NextRange]_vars

\* the statement this step executed, if it executed one
Executed ==
    IF Len(program') > Len(program) THEN program'[Len(program')] ELSE NullNode

\* the values print wrote during this step, in order
IsPrint(event) == event.ev = "print"
Printed ==
    LET events == SelectSeq(SubSeq(trace', Len(trace) + 1, Len(trace')), IsPrint)
    IN  [k \in 1..Len(events) |-> events[k].args[1]]

\* the array this step allocated last
NewArray ==
    CHOOSE o \in (Len(heap) + 1)..Len(heap') :
        /\ heap'[o].type = "OBJ_ARRAY"
        /\ \A p \in (o + 1)..Len(heap') : heap'[p].type # "OBJ_ARRAY"

\* s, s+1, .., e-1 when s <= e and s, s-1, .., e+1 when s > e
RangeValues(s, e) ==
    IF s <= e THEN [k \in 1..(e - s) |-> INT_VAL(s + k - 1)]
    ELSE [k \in 1..(s - e) |-> INT_VAL(s - k + 1)]

\* C15: the range s..e with integer bounds is the array s, s+1, .., e-1 when
\* s <= e, empty when s = e, and the array s, s-1, .., e+1 when s > e; a for
\* loop over it runs its body once per element, in that order.
C15_RangeElements ==
    [][\A s \in RangeBounds, e \in RangeBounds :
          Executed = ForRange(s, e) =>
              /\ heap'[NewArray].elements = RangeValues(s, e)
              /\ Printed = RangeValues(s, e)
              /\ ~interp'.had_error]_vars

\* the loops over 2..-1 and over -1..2 ran, the descending one last
C15_Witness ==
    /\ program = <<ForRange(-1, 2), ForRange(2, -1)>>
    /\ LET prints == SelectSeq(trace, IsPrint)
       IN  /\ Len(prints) = 6
           /\ prints[4].args = <<INT_VAL(2)>>
           /\ prints[6].args = <<INT_VAL(0)>>

\* C16: for every integer a, the loops for i in a..a and for i in a..a-1
\* execute zero iterations.
C16_EmptyRanges ==
    [][\A a \in RangeBounds :
          Executed \in {ForRange(a, a), ForCrossed(a)} => Printed = <<>>]_vars

---------------------------------------------------------------------------
(* Programs of match statements: at most MaxMatchStmts statements          *)
(*     match v { arms }                                                    *)
(* with v one of 0, 1, 4, 5, "a", true and the arms one of                 *)
(*  1  0 => print(1)      1..5 => { print(2) }    _ => print(3)            *)
(*  2  1 => print(1)      1 => print(2)           0..2 => print(3)         *)
(*  3  _ => { print(1) }  0 => print(2)                                    *)
(*  4  "a" => print(1)    true => print(2)        5..1 => print(3)         *)
(*     4..5 => print(4)                                                    *)

MaxMatchStmts == 2

Scrutinees ==
    {ast_int_literal(0, 1), ast_int_literal(1, 1), ast_int_literal(4, 1),
     ast_int_literal(5, 1), ast_string_literal(<<97>>, 1), ast_bool_literal(TRUE, 1)}

Wildcard == ast_identifier(<<95>>, 1)
IntRange(a, b) == ast_range(ast_int_literal(a, 1), ast_int_literal(b, 1), 1)

ArmPatterns ==
    << <<ast_int_literal(0, 1), IntRange(1, 5), Wildcard>>,
       <<ast_int_literal(1, 1), ast_int_literal(1, 1), IntRange(0, 2)>>,
       <<Wildcard, ast_int_literal(0, 1)>>,
       <<ast_string_literal(<<97>>, 1), ast_bool_literal(TRUE, 1), IntRange(5, 1),
         IntRange(4, 5)>> >>

\* the arms whose body is a block; the other bodies are expressions
BlockArms == {<<1, 2>>, <<3, 1>>}

\* the body of arm i of the arms f: print(i), as an expression or in a block
ArmBody(f, i) ==
    LET call == ast_call(ast_identifier(N_print, 1), <<ast_int_literal(i, 1)>>, 1)
    IN  IF <<f, i>> \in BlockArms THEN ast_block(<<ast_expr_stmt(call, 1)>>, 1)
        ELSE call

MatchStmt(v, f) ==
    ast_match(v, ArmPatterns[f], [i \in 1..Len(ArmPatterns[f]) |-> ArmBody(f, i)], 1)

MatchStmts == {MatchStmt(v, f) : v \in Scrutinees, f \in 1..Len(ArmPatterns)}

\* one iteration of exec_program's loop in these programs
MatchStatement(stmt) ==
    /\ Len(program) < MaxMatchStmts
    /\ ExecStatement(stmt)

NextMatch ==
    \/ \E stmt \in MatchStmts : MatchStatement(stmt)
    \/ Destroy

SpecMatch == InterpInit /\ [][NextMatch]_vars

\* the pattern matches the scrutinee v, a literal: the wildcard matches any
\* value, a range a..b the integers from a to b - 1, another literal its equal
Matches(pattern, v) ==
    IF pattern = Wildcard THEN TRUE
    ELSE IF pattern.type = "NODE_RANGE"
         THEN /\ v.type = "NODE_LITERAL_INT"
              /\ pattern.start.value <= v.value
              /\ v.value < pattern.end.value
    ELSE pattern.type = v.type /\ pattern.value = v.value

\* the arms of f that match v
MatchingArms(v, f) == {i \in 1..Len(ArmPatterns[f]) : Matches(ArmPatterns[f][i], v)}

\* C17: a match statement executes the body of the first arm, in declaration
\* order, whose pattern matches the scrutinee, and no other body; when no arm
\* matches it executes nothing and raises no error.  The wildcard matches any
\* value, a range pattern a..b the integers v with a <= v < b, any other
\* pattern the values equal to it.
C17_FirstMatchingArm ==
    [][\A v \in Scrutinees, f \in 1..Len(ArmPatterns) :
          Executed = MatchStmt(v, f) =>
              /\ ~interp'.had_error
              /\ IF MatchingArms(v, f) = {} THEN Printed = <<>>
                 ELSE Printed = <<INT_VAL(CHOOSE i \in MatchingArms(v, f) :
                                     \A j \in MatchingArms(v, f) : i <= j)>>]_vars

\* a match on 5 with no matching arm ran, then a match on 4 that took its
\* range arm although the wildcard after it matches as well
C17_Witness ==
    /\ program = <<MatchStmt(ast_int_literal(5, 1), 2), MatchStmt(ast_int_literal(4, 1), 1)>>
    /\ LET prints == SelectSeq(trace, IsPrint)
       IN  /\ Len(prints) = 1
           /\ prints[1].args = <<INT_VAL(2)>>

---------------------------------------------------------------------------
(* The lexer (lexer.c).  A source is a sequence of bytes; the byte after   *)
(* its last one is the terminating NUL.  A Lexer is a record with the      *)
(* source and the positions start and current (indexes, 1 for the first    *)
(* byte) and the line; columns are left out.  A token is a record with its *)
(* type, the slice of the source it covers (start, length) and its line;   *)
(* the start of an error token points to a message outside the source,     *)
(* given in the field message.                                             *)

CharAt(source, i) == IF i >= 1 /\ i <= Len(source) THEN source[i] ELSE 0

is_at_end(lexer) == CharAt(lexer.source, lexer.current) = 0

peek(lexer) == CharAt(lexer.source, lexer.current)

peek_next(lexer) ==
    IF is_at_end(lexer) THEN 0 ELSE CharAt(lexer.source, lexer.current + 1)

\* advance of lexer.c
lexer_advance(lexer) == [lexer EXCEPT !.current = @ + 1]

\* match that never finds the expected byte
lexer_match_never(lexer, expected) == FALSE

\* match of lexer.c, as a test; the caller advances when it holds
lexer_match(lexer, expected) ==
    ~is_at_end(lexer) /\ peek(lexer) = expected

make_token(lexer, type) ==
    [type |-> type, start |-> lexer.start,
     length |-> lexer.current - lexer.start, line |-> lexer.line,
     message |-> ""]

error_token(lexer, message) ==
    [type |-> "TOKEN_ERROR", start |-> 0, length |-> Len(message),
     line |-> lexer.line, message |-> message]

\* the bytes of a token
Lexeme(source, token) ==
    SubSeq(source, token.start, token.start + token.length - 1)

\* the loop of the '#' case: up to the end of the line
RECURSIVE skip_comment(_)
skip_comment(lexer) ==
    IF peek(lexer) # 10 /\ ~is_at_end(lexer)
    THEN skip_comment(lexer_advance(lexer))
    ELSE lexer

RECURSIVE skip_whitespace(_)
skip_whitespace(lexer) ==
    CASE peek(lexer) \in {32, 9, 13} -> skip_whitespace(lexer_advance(lexer))
      [] peek(lexer) = 35 -> skip_whitespace(skip_comment(lexer))
      [] OTHER -> lexer

is_digit(c) == c >= 48 /\ c <= 57

is_alpha(c) == (c >= 97 /\ c <= 122) \/ (c >= 65 /\ c <= 90) \/ c = 95

is_alnum(c) == is_alpha(c) \/ is_digit(c)

is_hex_digit(c) == is_digit(c) \/ (c >= 97 /\ c <= 102) \/ (c >= 65 /\ c <= 70)

\* the loops of scan_number over digits and digit separators
RECURSIVE scan_digits(_)
scan_digits(lexer) ==
    IF is_digit(peek(lexer)) \/ peek(lexer) = 95
    THEN scan_digits(lexer_advance(lexer))
    ELSE lexer

RECURSIVE scan_hex_digits(_)
scan_hex_digits(lexer) ==
    IF is_hex_digit(peek(lexer)) \/ peek(lexer) = 95
    THEN scan_hex_digits(lexer_advance(lexer))
    ELSE lexer

\* returns the lexer after the number and its token
scan_number(lexer) ==
    IF /\ lexer.current - lexer.start = 1
       /\ CharAt(lexer.source, lexer.start) = 48
       /\ peek(lexer) \in {120, 88}
    THEN Bind(scan_hex_digits(lexer_advance(lexer)), LAMBDA l1 :
             [lexer |-> l1, token |-> make_token(l1, "TOKEN_INT")])
    ELSE Bind(scan_digits(lexer), LAMBDA l1 :
             IF peek(l1) = 46 /\ is_digit(peek_next(l1))
             THEN Bind(scan_digits(lexer_advance(l1)), LAMBDA l2 :
                      [lexer |-> l2, token |-> make_token(l2, "TOKEN_FLOAT")])
             ELSE [lexer |-> l1, token |-> make_token(l1, "TOKEN_INT")])

\* the loop of scan_string: up to the closing quote or the end
RECURSIVE scan_string_chars(_)
scan_string_chars(lexer) ==
    IF peek(lexer) # 34 /\ ~is_at_end(lexer)
    THEN Bind(IF peek(lexer) = 10 THEN [lexer EXCEPT !.line = @ + 1] ELSE lexer,
              LAMBDA l1 :
                 IF peek(l1) = 92
                 THEN Bind(lexer_advance(l1), LAMBDA l2 :
                          scan_string_chars(IF ~is_at_end(l2)
                                            THEN lexer_advance(l2) ELSE l2))
                 ELSE scan_string_chars(lexer_advance(l1)))
    ELSE lexer

scan_string(lexer) ==
    Bind(scan_string_chars(lexer), LAMBDA l1 :
        IF is_at_end(l1)
        THEN [lexer |-> l1, token |-> error_token(l1, "Unterminated string")]
        ELSE Bind(lexer_advance(l1), LAMBDA l2 :
                 [lexer |-> l2, token |-> make_token(l2, "TOKEN_STRING")]))

\* the keywords, as the switch of identifier_type spells them
Keywords ==
    << [text |-> <<97, 110, 100>>, type |-> "TOKEN_AND"],
       [text |-> <<98, 114, 101, 97, 107>>, type |-> "TOKEN_BREAK"],
       [text |-> <<99, 111, 110, 116, 105, 110, 117, 101>>, type |-> "TOKEN_CONTINUE"],
       [text |-> <<100, 101, 102, 101, 114>>, type |-> "TOKEN_DEFER"],
       [text |-> <<101, 108, 115, 101>>, type |-> "TOKEN_ELSE"],
       [text |-> <<101, 108, 105, 102>>, type |-> "TOKEN_ELIF"],
       [text |-> <<102, 110>>, type |-> "TOKEN_FN"],
       [text |-> <<102, 111, 114>>, type |-> "TOKEN_FOR"],
       [text |-> <<102, 97, 108, 115, 101>>, type |-> "TOKEN_FALSE"],
       [text |-> <<105, 102>>, type |-> "TOKEN_IF"],
       [text |-> <<105, 110>>, type |-> "TOKEN_IN"],
       [text |-> <<109, 97, 116, 99, 104>>, type |-> "TOKEN_MATCH"],
       [text |-> <<110, 105, 108>>, type |-> "TOKEN_NIL"],
       [text |-> <<110, 111, 116>>, type |-> "TOKEN_NOT"],
       [text |-> <<111, 114>>, type |-> "TOKEN_OR"],
       [text |-> <<114, 101, 116, 117, 114, 110>>, type |-> "TOKEN_RETURN"],
       [text |-> <<116, 114, 117, 101>>, type |-> "TOKEN_TRUE"],
       [text |-> <<119, 104, 105, 108, 101>>, type |-> "TOKEN_WHILE"],
       [text |-> <<95>>, type |-> "TOKEN_UNDERSCORE"] >>

\* the switch on the first bytes followed by check_keyword's comparison of
\* the length and of the rest: the keyword whose bytes are the lexeme's
identifier_type(lexer) ==
    LET text == SubSeq(lexer.source, lexer.start, lexer.current - 1)
        hits == {i \in 1..Len(Keywords) : Keywords[i].text = text}
    IN  IF hits = {} THEN "TOKEN_IDENTIFIER"
        ELSE Keywords[CHOOSE i \in hits : TRUE].type

RECURSIVE scan_alnum(_)
scan_alnum(lexer) ==
    IF is_alnum(peek(lexer)) THEN scan_alnum(lexer_advance(lexer)) ELSE lexer

scan_identifier(lexer) ==
    Bind(scan_alnum(lexer), LAMBDA l1 :
        [lexer |-> l1, token |-> make_token(l1, identifier_type(l1))])

lexer_init(source) ==
    [source |-> source, start |-> 1, current |-> 1, line |-> 1]

\* the token of type `type` at the lexer's position
One(lexer, type) == [lexer |-> lexer, token |-> make_token(lexer, type)]

\* the same after match has consumed one more byte
Two(lexer, type) == One(lexer_advance(lexer), type)

\* the single-byte tokens of the switch of lexer_next_token
SingleByte ==
    [c \in {40, 41, 123, 125, 91, 93, 44, 59, 43, 42, 47, 37, 38, 64} |->
        CASE c = 40 -> "TOKEN_LPAREN"   [] c = 41 -> "TOKEN_RPAREN"
          [] c = 123 -> "TOKEN_LBRACE"  [] c = 125 -> "TOKEN_RBRACE"
          [] c = 91 -> "TOKEN_LBRACKET" [] c = 93 -> "TOKEN_RBRACKET"
          [] c = 44 -> "TOKEN_COMMA"    [] c = 59 -> "TOKEN_SEMICOLON"
          [] c = 43 -> "TOKEN_PLUS"     [] c = 42 -> "TOKEN_STAR"
          [] c = 47 -> "TOKEN_SLASH"    [] c = 37 -> "TOKEN_PERCENT"
          [] c = 38 -> "TOKEN_AMPERSAND" [] c = 64 -> "TOKEN_AT"]

\* the switch of lexer_next_token on the byte c just consumed
lexer_switch(l, c) ==
    CASE c = 10 ->
           One([l EXCEPT !.line = @ + 1], "TOKEN_NEWLINE")
      [] c \in DOMAIN SingleByte -> One(l, SingleByte[c])
      [] c = 45 ->
           IF lexer_match(l, 62) THEN Two(l, "TOKEN_RARROW")
           ELSE One(l, "TOKEN_MINUS")
      [] c = 46 ->
           IF lexer_match(l, 46) THEN Two(l, "TOKEN_DOTDOT")
           ELSE One(l, "TOKEN_DOT")
      [] c = 58 ->
           IF lexer_match(l, 58) THEN Two(l, "TOKEN_COLONCOLON")
           ELSE IF lexer_match(l, 61) THEN Two(l, "TOKEN_COLONEQ")
           ELSE One(l, "TOKEN_COLON")
      [] c = 61 ->
           IF lexer_match(l, 61) THEN Two(l, "TOKEN_EQEQ")
           ELSE IF lexer_match(l, 62) THEN Two(l, "TOKEN_ARROW")
           ELSE One(l, "TOKEN_EQ")
      [] c = 33 ->
           IF lexer_match(l, 61) THEN Two(l, "TOKEN_NEQ")
           ELSE One(l, "TOKEN_BANG")
      [] c = 60 ->
           IF lexer_match(l, 61) THEN Two(l, "TOKEN_LTE")
           ELSE One(l, "TOKEN_LT")
      [] c = 62 ->
           IF lexer_match(l, 61) THEN Two(l, "TOKEN_GTE")
           ELSE One(l, "TOKEN_GT")
      [] c = 34 -> scan_string(l)
      [] OTHER -> [lexer |-> l, token |-> error_token(l, "Unexpected character")]

\* returns the lexer after the token and the token
lexer_next_token(lexer) ==
    Bind(skip_whitespace(lexer), LAMBDA l0 :
    Bind([l0 EXCEPT !.start = l0.current], LAMBDA l1 :
        IF is_at_end(l1) THEN [lexer |-> l1, token |-> make_token(l1, "TOKEN_EOF")]
        ELSE Bind(peek(l1), LAMBDA c :
             Bind(lexer_advance(l1), LAMBDA l2 :
                 IF is_alpha(c) THEN scan_identifier(l2)
                 ELSE IF is_digit(c) THEN scan_number(l2)
                 ELSE lexer_switch(l2, c)))))

\* the token lexer_next_token would return; the lexer is left as it is
lexer_peek_token(lexer) == lexer_next_token(lexer).token

---------------------------------------------------------------------------
(* The parser (parser.c).  A Parser is a record with its lexer, the tokens *)
(* current and previous and the flags had_error and panic_mode; the field  *)
(* diagnostics is a history of what error_at wrote to stderr.  A parse     *)
(* function returns the parser it leaves and the node it built, NullNode   *)
(* for C's NULL.                                                           *)

PREC_NONE == 0
PREC_ASSIGNMENT == 1
PREC_OR == 2
PREC_AND == 3
PREC_EQUALITY == 4
PREC_COMPARISON == 5
PREC_RANGE == 6
PREC_TERM == 7
PREC_FACTOR == 8
PREC_UNARY == 9
PREC_CALL == 10
PREC_PRIMARY == 11

\* a token field that parser_init leaves unset
NoToken ==
    [type |-> "unset", start |-> 0, length |-> 0, line |-> 0, message |-> ""]

ast_float_literal(value, line) ==
    [type |-> "NODE_LITERAL_FLOAT", line |-> line, value |-> value]

\* error_at without the assignment to had_error
error_at_unflagged(p, token, message) ==
    IF p.panic_mode THEN p
    ELSE [p EXCEPT !.panic_mode = TRUE,
                   !.diagnostics =
                       Append(@, [line |-> token.line, message |-> message])]

error_at(p, token, message) ==
    IF p.panic_mode THEN p
    ELSE [p EXCEPT !.panic_mode = TRUE, !.had_error = TRUE,
                        !.diagnostics =
                            Append(@, [line |-> token.line, message |-> message])]

error(p, message) == error_at(p, p.previous, message)

error_at_current(p, message) == error_at(p, p.current, message)

\* the for (;;) of advance
RECURSIVE advance_loop(_)
advance_loop(p) ==
    Bind(lexer_next_token(p.lexer), LAMBDA r :
    Bind([p EXCEPT !.lexer = r.lexer, !.current = r.token], LAMBDA p1 :
        IF p1.current.type = "TOKEN_NEWLINE" THEN advance_loop(p1)
        ELSE IF p1.current.type # "TOKEN_ERROR" THEN p1
        ELSE advance_loop(error_at_current(p1, p1.current.message))))

advance(p) == advance_loop([p EXCEPT !.previous = p.current])

check(p, type) == p.current.type = type

\* returns the parser and whether the token matched
match(p, type) ==
    IF ~check(p, type) THEN [parser |-> p, matched |-> FALSE]
    ELSE [parser |-> advance(p), matched |-> TRUE]

consume(p, type, message) ==
    IF p.current.type = type THEN advance(p)
    ELSE error_at_current(p, message)

RECURSIVE synchronize_loop(_)
synchronize_loop(p) ==
    IF p.current.type = "TOKEN_EOF" THEN p
    ELSE IF p.previous.type = "TOKEN_NEWLINE" THEN p
    ELSE IF p.current.type \in
                {"TOKEN_FN", "TOKEN_IF", "TOKEN_WHILE", "TOKEN_FOR",
                 "TOKEN_RETURN", "TOKEN_MATCH", "TOKEN_DEFER"} THEN p
    ELSE synchronize_loop(advance(p))

synchronize(p) == synchronize_loop([p EXCEPT !.panic_mode = FALSE])

\* the rules table of init_rules: the names of the prefix and infix
\* functions and the precedence, by token type
ParseRule(prefix, infix, precedence) ==
    [prefix |-> prefix, infix |-> infix, precedence |-> precedence]

get_rule(type) ==
    CASE type \in {"TOKEN_INT", "TOKEN_FLOAT"} ->
           ParseRule("parse_number", "NULL", PREC_NONE)
      [] type = "TOKEN_STRING" -> ParseRule("parse_string", "NULL", PREC_NONE)
      [] type \in {"TOKEN_TRUE", "TOKEN_FALSE", "TOKEN_NIL"} ->
           ParseRule("parse_literal", "NULL", PREC_NONE)
      [] type = "TOKEN_IDENTIFIER" ->
           ParseRule("parse_identifier", "NULL", PREC_NONE)
      [] type = "TOKEN_LPAREN" -> ParseRule("parse_grouping", "parse_call", PREC_CALL)
      [] type = "TOKEN_LBRACKET" -> ParseRule("parse_array", "parse_index", PREC_CALL)
      [] type = "TOKEN_LBRACE" -> ParseRule("parse_table", "NULL", PREC_NONE)
      [] type = "TOKEN_MINUS" -> ParseRule("parse_unary", "parse_binary", PREC_TERM)
      [] type \in {"TOKEN_NOT", "TOKEN_BANG"} ->
           ParseRule("parse_unary", "NULL", PREC_NONE)
      [] type = "TOKEN_AMPERSAND" -> ParseRule("parse_address_of", "NULL", PREC_NONE)
      [] type = "TOKEN_PLUS" -> ParseRule("NULL", "parse_binary", PREC_TERM)
      [] type \in {"TOKEN_STAR", "TOKEN_SLASH", "TOKEN_PERCENT"} ->
           ParseRule("NULL", "parse_binary", PREC_FACTOR)
      [] type \in {"TOKEN_EQEQ", "TOKEN_NEQ"} ->
           ParseRule("NULL", "parse_binary", PREC_EQUALITY)
      [] type \in {"TOKEN_LT", "TOKEN_GT", "TOKEN_LTE", "TOKEN_GTE"} ->
           ParseRule("NULL", "parse_binary", PREC_COMPARISON)
      [] type = "TOKEN_AND" -> ParseRule("NULL", "parse_binary", PREC_AND)
      [] type = "TOKEN_OR" -> ParseRule("NULL", "parse_binary", PREC_OR)
      [] type = "TOKEN_DOTDOT" -> ParseRule("NULL", "parse_range", PREC_RANGE)
      [] type = "TOKEN_DOT" -> ParseRule("NULL", "parse_field", PREC_CALL)
      [] type = "TOKEN_FN" -> ParseRule("parse_fn_expr", "NULL", PREC_NONE)
      [] OTHER -> ParseRule("NULL", "NULL", PREC_NONE)

parser_init(lexer) ==
    advance([lexer |-> lexer, current |-> NoToken, previous |-> NoToken,
             had_error |-> FALSE, panic_mode |-> FALSE, diagnostics |-> <<>>])

\* the bytes of the parser's previous token
PreviousLexeme(p) == Lexeme(p.lexer.source, p.previous)

\* the copy of parse_number: the bytes of the token without the separators
WithoutSeparators(text) == SelectSeq(text, LAMBDA c : c # 95)

DigitOf(c) ==
    IF is_digit(c) THEN c - 48 ELSE IF c >= 97 THEN c - 87 ELSE c - 55

RECURSIVE strtoll_digits(_, _, _, _)
strtoll_digits(buf, i, base, acc) ==
    IF i <= Len(buf) /\ is_hex_digit(buf[i]) /\ DigitOf(buf[i]) < base
    THEN strtoll_digits(buf, i + 1, base, acc * base + DigitOf(buf[i]))
    ELSE acc

\* strtoll(buf, NULL, 0): the base is 16 after "0x", 8 after "0" and 10
\* otherwise, and the digits end at the first byte that is not one of the
\* base.  The literals of the runs are below 2^31.
strtoll(buf) ==
    IF Len(buf) >= 3 /\ buf[1] = 48 /\ buf[2] \in {120, 88} /\ is_hex_digit(buf[3])
    THEN strtoll_digits(buf, 3, 16, 0)
    ELSE IF Len(buf) >= 1 /\ buf[1] = 48 THEN strtoll_digits(buf, 1, 8, 0)
    ELSE strtoll_digits(buf, 1, 10, 0)

\* a float literal keeps the bytes strtod reads
parse_number(p) ==
    LET token == p.previous
        buf == WithoutSeparators(PreviousLexeme(p))
    IN  IF token.type = "TOKEN_INT"
        THEN [parser |-> p, node |-> ast_int_literal(strtoll(buf), token.line)]
        ELSE [parser |-> p, node |-> ast_float_literal(buf, token.line)]

\* the loop of parse_string over the bytes between the quotes
RECURSIVE unescape(_, _, _)
unescape(text, i, buf) ==
    IF i > Len(text) THEN buf
    ELSE IF text[i] = 92 /\ i + 1 <= Len(text)
    THEN unescape(text, i + 2,
             Append(buf, CASE text[i + 1] = 110 -> 10
                           [] text[i + 1] = 116 -> 9
                           [] text[i + 1] = 114 -> 13
                           [] text[i + 1] = 48 -> 0
                           [] OTHER -> text[i + 1]))
    ELSE unescape(text, i + 1, Append(buf, text[i]))

parse_string(p) ==
    LET token == p.previous
        text == SubSeq(p.lexer.source, token.start + 1,
                       token.start + token.length - 2)
    IN  [parser |-> p,
         node |-> ast_string_literal(unescape(text, 1, <<>>), token.line)]

parse_literal(p) ==
    LET token == p.previous
    IN  [parser |-> p,
         node |-> CASE token.type = "TOKEN_TRUE" -> ast_bool_literal(TRUE, token.line)
                    [] token.type = "TOKEN_FALSE" -> ast_bool_literal(FALSE, token.line)
                    [] token.type = "TOKEN_NIL" -> ast_nil_literal(token.line)
                    [] OTHER -> NullNode]

parse_identifier(p) ==
    [parser |-> p,
     node |-> ast_identifier(PreviousLexeme(p), p.previous.line)]

RECURSIVE parse_precedence(_, _)

parse_expression(p) == parse_precedence(p, PREC_ASSIGNMENT)

parse_grouping(p) ==
    Bind(parse_expression(p), LAMBDA r :
        [parser |-> consume(r.parser, "TOKEN_RPAREN", "Expected ')' after expression"),
         node |-> r.node])

parse_unary(p) ==
    Bind(parse_precedence(p, PREC_UNARY), LAMBDA r :
        [parser |-> r.parser,
         node |-> ast_unary(p.previous.type, r.node, p.previous.line)])

\* parse_binary with the right operand parsed at the operator's own level
parse_binary_same_level(p, left) ==
    Bind(parse_precedence(p, get_rule(p.previous.type).precedence), LAMBDA r :
        [parser |-> r.parser,
         node |-> ast_binary(p.previous.type, left, r.node, p.previous.line)])

parse_binary(p, left) ==
    Bind(parse_precedence(p, get_rule(p.previous.type).precedence + 1),
         LAMBDA r :
        [parser |-> r.parser,
         node |-> ast_binary(p.previous.type, left, r.node,
                             p.previous.line)])

parse_range(p, left) ==
    Bind(parse_precedence(p, PREC_RANGE + 1), LAMBDA r :
        [parser |-> r.parser,
         node |-> ast_range(left, r.node, p.previous.line)])

\* the do-while of parse_call: returns the parser and the arguments
RECURSIVE parse_arguments(_, _)
parse_arguments(p, args) ==
    Bind(parse_expression(p), LAMBDA r :
    Bind(match(r.parser, "TOKEN_COMMA"), LAMBDA c :
        IF c.matched THEN parse_arguments(c.parser, Append(args, r.node))
        ELSE [parser |-> c.parser, args |-> Append(args, r.node)]))

parse_call(p, left) ==
    Bind(IF ~check(p, "TOKEN_RPAREN") THEN parse_arguments(p, <<>>)
         ELSE [parser |-> p, args |-> <<>>], LAMBDA a :
        [parser |-> consume(a.parser, "TOKEN_RPAREN", "Expected ')' after arguments"),
         node |-> ast_call(left, a.args, p.previous.line)])

parse_index(p, left) ==
    Bind(parse_expression(p), LAMBDA r :
        [parser |-> consume(r.parser, "TOKEN_RBRACKET", "Expected ']' after index"),
         node |-> ast_index(left, r.node, p.previous.line)])

parse_field(p, left) ==
    Bind(consume(p, "TOKEN_IDENTIFIER", "Expected field name after '.'"),
         LAMBDA p1 :
        [parser |-> p1,
         node |-> ast_field(left, PreviousLexeme(p1), p.previous.line)])

\* the do-while of parse_array: returns the parser and the elements
RECURSIVE parse_elements(_, _)
parse_elements(p, elements) ==
    IF check(p, "TOKEN_RBRACKET")
    THEN [parser |-> p, elements |-> elements]
    ELSE Bind(parse_expression(p), LAMBDA r :
         Bind(match(r.parser, "TOKEN_COMMA"), LAMBDA c :
             IF c.matched THEN parse_elements(c.parser, Append(elements, r.node))
             ELSE [parser |-> c.parser, elements |-> Append(elements, r.node)]))

parse_array(p) ==
    Bind(parse_elements(p, <<>>), LAMBDA e :
        [parser |-> consume(e.parser, "TOKEN_RBRACKET",
                            "Expected ']' after array elements"),
         node |-> ast_array(e.elements, p.previous.line)])

\* the call of a prefix function through the rules table; the sources of
\* the runs have no table literal, no function literal and no '&'
Prefix(rule, p) ==
    CASE rule = "parse_number" -> parse_number(p)
      [] rule = "parse_string" -> parse_string(p)
      [] rule = "parse_literal" -> parse_literal(p)
      [] rule = "parse_identifier" -> parse_identifier(p)
      [] rule = "parse_grouping" -> parse_grouping(p)
      [] rule = "parse_array" -> parse_array(p)
      [] rule = "parse_unary" -> parse_unary(p)

\* the call of an infix function through the rules table
Infix(rule, p, left) ==
    CASE rule = "parse_binary" -> parse_binary(p, left)
      [] rule = "parse_range" -> parse_range(p, left)
      [] rule = "parse_call" -> parse_call(p, left)
      [] rule = "parse_index" -> parse_index(p, left)
      [] rule = "parse_field" -> parse_field(p, left)

\* the while loop of parse_precedence
RECURSIVE parse_infix_loop(_, _, _)
parse_infix_loop(p, precedence, left) ==
    IF precedence <= get_rule(p.current.type).precedence
    THEN Bind(advance(p), LAMBDA p1 :
         Bind(Infix(get_rule(p1.previous.type).infix, p1, left), LAMBDA r :
             parse_infix_loop(r.parser, precedence, r.node)))
    ELSE [parser |-> p, node |-> left]

parse_precedence(p, precedence) ==
    Bind(advance(p), LAMBDA p1 :
    Bind(get_rule(p1.previous.type).prefix, LAMBDA prefix_rule :
        IF prefix_rule = "NULL"
        THEN [parser |-> error(p1, "Expected expression"), node |-> NullNode]
        ELSE Bind(Prefix(prefix_rule, p1), LAMBDA left :
                 parse_infix_loop(left.parser, precedence, left.node))))

parse_return(p) ==
    IF /\ ~check(p, "TOKEN_RBRACE")
       /\ ~check(p, "TOKEN_NEWLINE")
       /\ ~check(p, "TOKEN_EOF")
    THEN Bind(parse_expression(p), LAMBDA r :
             [parser |-> r.parser,
              node |-> ast_return(r.node, p.previous.line)])
    ELSE [parser |-> p, node |-> ast_return(NullNode, p.previous.line)]

\* the loop at the head of parse_statement
RECURSIVE skip_leading_newlines(_)
skip_leading_newlines(p) ==
    IF p.current.type = "TOKEN_NEWLINE"
    THEN Bind(lexer_next_token(p.lexer), LAMBDA r :
             skip_leading_newlines([p EXCEPT !.lexer = r.lexer, !.current = r.token]))
    ELSE p

\* name := expr and name :: expr
parse_declaration(p, is_const) ==
    Bind(parse_expression(advance(advance(p))), LAMBDA init :
        [parser |-> init.parser,
         node |-> ast_var_decl(Lexeme(p.lexer.source, p.current),
                               init.node, is_const, p.current.line)])

\* The parser has read the bytes up to the terminating NUL of the source and
\* a byte after it: undefined behaviour.
Overrun(p) == p.lexer.current > Len(p.lexer.source) + 1

RECURSIVE c_block_scan(_, _, _, _)
\* the while loop of parse_c_block: the lexer after it and the length
\* counted; at_eof is check(parser, TOKEN_EOF), which the loop does not
\* change.  The loop is followed up to its first read beyond the NUL.
c_block_scan(lexer, brace_count, length, at_eof) ==
    IF ~(brace_count > 0 /\ ~at_eof) THEN [lexer |-> lexer, length |-> length]
    ELSE IF lexer.current > Len(lexer.source) + 1
         THEN [lexer |-> lexer, length |-> length]
    ELSE LET c == CharAt(lexer.source, lexer.current)
             count == IF c = 123 THEN brace_count + 1
                      ELSE IF c = 125 THEN brace_count - 1
                      ELSE brace_count
         IN  IF count > 0
             THEN c_block_scan(lexer_advance(lexer), count, length + 1, at_eof)
             ELSE c_block_scan(lexer, count, length, at_eof)

parse_c_block(p) ==
    Bind(consume(p, "TOKEN_LBRACE", "Expected '{' after @c"), LAMBDA p1 :
    Bind(c_block_scan(p1.lexer, 1, 0, check(p1, "TOKEN_EOF")), LAMBDA scan :
    Bind([p1 EXCEPT !.lexer = scan.lexer], LAMBDA p2 :
        IF Overrun(p2) THEN [parser |-> p2, node |-> NullNode]
        ELSE [parser |-> advance(p2),
              node |-> ast_c_block(SubSeq(p.lexer.source, p1.lexer.current,
                                          p1.lexer.current + scan.length - 1),
                                   p.previous.line)])))

\* parse_statement, the directives; the sources of the runs have no @import
parse_directive(p) ==
    IF check(p, "TOKEN_IDENTIFIER") /\ Lexeme(p.lexer.source, p.current) = <<99>>
    THEN parse_c_block(advance(p))
    ELSE CASE ~(/\ check(p, "TOKEN_IDENTIFIER")
                /\ Lexeme(p.lexer.source, p.current) = <<105, 109, 112, 111, 114, 116>>) ->
                  [parser |-> error(p, "Unknown directive"), node |-> NullNode]

\* parse_statement from the keywords on; the sources of the runs have
\* return, break, continue and @c, and no block and no function
parse_statement_keyword(p) ==
    CASE check(p, "TOKEN_RETURN") -> parse_return(advance(p))
      [] check(p, "TOKEN_BREAK") ->
           [parser |-> advance(p), node |-> ast_break(p.current.line)]
      [] check(p, "TOKEN_CONTINUE") ->
           [parser |-> advance(p), node |-> ast_continue(p.current.line)]
      [] check(p, "TOKEN_AT") -> parse_directive(advance(p))
      [] p.current.type \notin {"TOKEN_IF", "TOKEN_WHILE", "TOKEN_FOR", "TOKEN_MATCH",
                                "TOKEN_DEFER", "TOKEN_FN", "TOKEN_AT"} ->
           Bind(parse_expression(p), LAMBDA expr :
           Bind(match(expr.parser, "TOKEN_EQ"), LAMBDA eq :
               IF eq.matched
               THEN Bind(parse_expression(eq.parser), LAMBDA value :
                        [parser |-> value.parser,
                         node |-> ast_assignment(expr.node, value.node,
                                                 p.current.line)])
               ELSE [parser |-> eq.parser,
                     node |-> ast_expr_stmt(expr.node, p.current.line)]))

parse_statement(parser0) ==
    Bind(skip_leading_newlines(parser0), LAMBDA p :
        IF check(p, "TOKEN_EOF") THEN [parser |-> p, node |-> NullNode]
        ELSE IF /\ check(p, "TOKEN_IDENTIFIER")
                /\ lexer_peek_token(p.lexer).type = "TOKEN_COLONEQ"
        THEN parse_declaration(p, FALSE)
        ELSE IF /\ check(p, "TOKEN_IDENTIFIER")
                /\ lexer_peek_token(p.lexer).type = "TOKEN_COLONCOLON"
        THEN parse_declaration(p, TRUE)
        ELSE parse_statement_keyword(p))

---------------------------------------------------------------------------
(* parse_program and parse, and the parser specification: parse() on a     *)
(* source, one step for each turn of parse_program's loop and one for the  *)
(* return.  program holds the statements collected so far, tut what parse  *)
(* returned.                                                               *)

\* one turn of the loop of parse_program
parse_program_step(p, stmts) ==
    Bind(parse_statement(p), LAMBDA s :
        [parser |-> IF s.parser.panic_mode THEN synchronize(s.parser) ELSE s.parser,
         stmts |-> IF s.node # NullNode THEN Append(stmts, s.node) ELSE stmts])

\* the end of parse: the tree, or NULL after an error
parse_result(p, stmts) ==
    IF p.had_error THEN NullNode ELSE ast_program(stmts)

RECURSIVE parse_program(_, _)
parse_program(p, stmts) ==
    IF ~check(p, "TOKEN_EOF")
    THEN Bind(parse_program_step(p, stmts), LAMBDA r :
             parse_program(r.parser, r.stmts))
    ELSE [parser |-> p, stmts |-> stmts]

parse(source) ==
    Bind(parse_program(parser_init(lexer_init(source)), <<>>), LAMBDA r :
        parse_result(r.parser, r.stmts))

\* the concatenation of the byte sequences of texts
RECURSIVE Concat(_)
Concat(texts) ==
    IF texts = <<>> THEN <<>> ELSE Head(texts) \o Concat(Tail(texts))

\* Sources put together from a few tokens, legal and illegal:
\*   x  1  :=  +  (  )  newline  ;  $  return  "
MaxTokens == 3

Fragments ==
    { <<120>>, <<49>>, <<58, 61>>, <<43>>, <<40>>, <<41>>, <<10>>, <<59>>,
      <<36>>, <<114, 101, 116, 117, 114, 110, 32>>, <<34>> }

\* the incomplete declaration  x :=
Incomplete == <<120, 32, 58, 61, 32>>

TokenInputs ==
    UNION {[1..n -> Fragments] : n \in 0..MaxTokens} \cup {<<Incomplete>>}

\* Two statements with a newline or a semicolon between them:
\*   c := 0    f()    x    (1)    [1]    -1
StatementTexts ==
    << <<99, 32, 58, 61, 32, 48>>, <<102, 40, 41>>, <<120>>,
       <<40, 49, 41>>, <<91, 49, 93>>, <<45, 49>> >>

Separators == {<<10>>, <<59>>}

SeparatedInputs ==
    [first : 1..Len(StatementTexts), sep : Separators,
     second : 1..Len(StatementTexts)]

\* Expressions  1 op -x op f(2) op -a.b[3] op 1 ..  of binary operators:
\*   or  and  ==  !=  <  >=  ..  +  -  *  /  %
MaxOperators == 3

OperatorTexts ==
    << <<111, 114>>, <<97, 110, 100>>, <<61, 61>>, <<33, 61>>, <<60>>,
       <<62, 61>>, <<46, 46>>, <<43>>, <<45>>, <<42>>, <<47>>, <<37>> >>

\* the operands: 1, -x, f(2), -a.b[3], and again
OperandTexts ==
    << <<49>>, <<45, 120>>, <<102, 40, 50, 41>>, <<45, 97, 46, 98, 91, 51, 93>> >>

OperandText(i) == OperandTexts[((i - 1) % Len(OperandTexts)) + 1]

OperatorInputs ==
    UNION {[1..n -> 1..Len(OperatorTexts)] : n \in 1..MaxOperators}

\* operand, then operator and operand for each operator, with spaces
RECURSIVE OperatorSource(_, _)
OperatorSource(ops, i) ==
    IF i > Len(ops) THEN <<>>
    ELSE <<32>> \o OperatorTexts[ops[i]] \o <<32>> \o OperandText(i + 1)
         \o OperatorSource(ops, i + 1)

\* the expressions  1 + 2 * 3,  1 - 2 - 3,  1..n+1  and the assignment
\* x = 1 or 2
ExampleTexts ==
    << <<49, 32, 43, 32, 50, 32, 42, 32, 51>>,
       <<49, 32, 45, 32, 50, 32, 45, 32, 51>>,
       <<49, 46, 46, 110, 43, 49>>,
       <<120, 32, 61, 32, 49, 32, 111, 114, 32, 50>> >>

Inputs ==
    {[kind |-> "tokens", tokens |-> ts] : ts \in TokenInputs}
    \cup {[kind |-> "separated", first |-> s.first, sep |-> s.sep,
           second |-> s.second] : s \in SeparatedInputs}
    \cup {[kind |-> "operators", ops |-> ops] : ops \in OperatorInputs}
    \cup {[kind |-> "example", example |-> i] : i \in 1..Len(ExampleTexts)}

SourceOf(in) ==
    CASE in.kind = "tokens" -> Concat(in.tokens)
      [] in.kind = "separated" ->
           StatementTexts[in.first] \o in.sep \o StatementTexts[in.second]
      [] in.kind = "operators" -> OperandText(1) \o OperatorSource(in.ops, 1)
      [] in.kind = "example" -> ExampleTexts[in.example]

ParseInit ==
    /\ InitMachine(EmptyMachine)
    /\ rc0 = <<>>
    /\ nops = 0
    /\ tut = NULL
    /\ program = <<>>
    /\ pc = "parse_program"
    /\ input \in Inputs
    /\ parser = parser_init(lexer_init(SourceOf(input)))
    /\ map = NULL
    /\ lx = NULL
    /\ tokens = NULL
    /\ storage = NULL

ParseStatement ==
    /\ pc = "parse_program"
    /\ ~Overrun(parser)
    /\ ~check(parser, "TOKEN_EOF")
    /\ LET r == parse_program_step(parser, program)
       IN  parser' = r.parser /\ program' = r.stmts
    /\ SetMachine(Machine)
    /\ UNCHANGED <<pc, tut, rc0, nops, input, map, lx, tokens, storage>>

ParseReturn ==
    /\ pc = "parse_program"
    /\ ~Overrun(parser)
    /\ check(parser, "TOKEN_EOF")
    /\ tut' = parse_result(parser, program)
    /\ pc' = "returned"
    /\ SetMachine(Machine)
    /\ UNCHANGED <<program, rc0, nops, parser, input, map, lx, tokens, storage>>

NextParse ==
    \/ ParseStatement
    \/ ParseReturn

SpecParse == ParseInit /\ [][NextParse]_vars

\* the statements of StatementTexts as trees, on the line given
StatementNode(i, line) ==
    CASE i = 1 -> ast_var_decl(N_c, ast_int_literal(0, line), FALSE, line)
      [] i = 2 -> ast_expr_stmt(ast_call(ast_identifier(N_f, line), <<>>, line), line)
      [] i = 3 -> ast_expr_stmt(ast_identifier(N_x, line), line)
      [] i = 4 -> ast_expr_stmt(ast_int_literal(1, line), line)
      [] i = 5 -> ast_expr_stmt(ast_array(<<ast_int_literal(1, line)>>, line), line)
      [] i = 6 -> ast_expr_stmt(ast_unary("TOKEN_MINUS", ast_int_literal(1, line),
                                          line), line)

\* the line of the statement after the separator sep
LineAfter(sep) == IF sep = <<10>> THEN 2 ELSE 1

\* parse returned the two statements of the input, each as it stands alone
TwoStatements ==
    /\ parser.diagnostics = <<>>
    /\ tut = ast_program(<<StatementNode(input.first, 1),
                           StatementNode(input.second, LineAfter(input.sep))>>)

\* C18: two statements with a newline or a semicolon between them parse
\* without error as those two statements; the expression of the first does
\* not extend across the separator.
C18_SeparatorsSeparate ==
    (pc = "returned" /\ input.kind = "separated") => TwoStatements


\* C19: parse returns a tree exactly when no lex or parse error was reported
\* while it ran: after a diagnostic it returns no tree, also when
\* statements were parsed after the synchronisation, and without one it
\* returns the program of the statements parsed, which for the empty source
\* is a program node with no statements.
C19_TreeIffNoDiagnostic ==
    pc = "returned" =>
        /\ (tut # NullNode) <=> (parser.diagnostics = <<>>)
        /\ tut # NullNode => tut = ast_program(program)
        /\ parser.lexer.source = <<>> => tut = ast_program(<<>>)
        /\ parser.lexer.source = Incomplete => tut = NullNode

\* parse returned no tree for a source with one diagnostic and, after the
\* synchronisation, a complete return statement
C19_Witness ==
    /\ pc = "returned"
    /\ tut = NullNode
    /\ Len(parser.diagnostics) = 1
    /\ Len(program) = 2
    /\ program[2].type = "NODE_RETURN"
    /\ program[2].value = ast_int_literal(1, 1)


\* the token types of OperatorTexts and their levels on the ladder
\*   or < and < equality < comparison < range < additive < multiplicative
OperatorTypes ==
    <<"TOKEN_OR", "TOKEN_AND", "TOKEN_EQEQ", "TOKEN_NEQ", "TOKEN_LT", "TOKEN_GTE",
      "TOKEN_DOTDOT", "TOKEN_PLUS", "TOKEN_MINUS", "TOKEN_STAR", "TOKEN_SLASH",
      "TOKEN_PERCENT">>

OperatorLevels == <<1, 2, 3, 3, 4, 4, 5, 6, 6, 7, 7, 7>>

\* the operands as trees: unary binds tighter than the binary operators and
\* call, field and index tighter than unary
OperandNode(i) ==
    CASE (i - 1) % 4 = 0 -> ast_int_literal(1, 1)
      [] (i - 1) % 4 = 1 -> ast_unary("TOKEN_MINUS", ast_identifier(N_x, 1), 1)
      [] (i - 1) % 4 = 2 ->
           ast_call(ast_identifier(N_f, 1), <<ast_int_literal(2, 1)>>, 1)
      [] (i - 1) % 4 = 3 ->
           ast_unary("TOKEN_MINUS",
               ast_index(ast_field(ast_identifier(N_a, 1), <<98>>, 1),
                         ast_int_literal(3, 1), 1), 1)

\* the node of the operator o over left and right
Join(o, left, right) ==
    IF OperatorTypes[o] = "TOKEN_DOTDOT" THEN ast_range(left, right, 1)
    ELSE ast_binary(OperatorTypes[o], left, right, 1)

\* the tree of operands lo..hi joined by ops[lo..hi-1] that the ladder and
\* left associativity give: the root is the last of the lowest operators
RECURSIVE LadderTree(_, _, _)
LadderTree(ops, lo, hi) ==
    IF lo = hi THEN OperandNode(lo)
    ELSE LET lowest == CHOOSE j \in lo..(hi - 1) :
                           \A k \in lo..(hi - 1) :
                               \/ OperatorLevels[ops[j]] < OperatorLevels[ops[k]]
                               \/ OperatorLevels[ops[j]] = OperatorLevels[ops[k]]
                                  /\ k <= j
         IN  Join(ops[lowest], LadderTree(ops, lo, lowest),
                  LadderTree(ops, lowest + 1, hi))

\* the statements of ExampleTexts as the claim reads them
ExampleNodes ==
    << ast_expr_stmt(
           ast_binary("TOKEN_PLUS", ast_int_literal(1, 1),
               ast_binary("TOKEN_STAR", ast_int_literal(2, 1),
                          ast_int_literal(3, 1), 1), 1), 1),
       ast_expr_stmt(
           ast_binary("TOKEN_MINUS",
               ast_binary("TOKEN_MINUS", ast_int_literal(1, 1),
                          ast_int_literal(2, 1), 1),
               ast_int_literal(3, 1), 1), 1),
       ast_expr_stmt(
           ast_range(ast_int_literal(1, 1),
               ast_binary("TOKEN_PLUS", ast_identifier(<<110>>, 1),
                          ast_int_literal(1, 1), 1), 1), 1),
       ast_assignment(ast_identifier(N_x, 1),
           ast_binary("TOKEN_OR", ast_int_literal(1, 1), ast_int_literal(2, 1), 1),
           1) >>

\* C20: in an expression of binary operators an operator higher on the
\* ladder (assignment < or < and < equality < comparison < range < additive
\* < multiplicative < unary < call/field/index) binds tighter than a lower
\* one, and operators of one level associate to the left.
C20_PrecedenceLadder ==
    pc = "returned" =>
        /\ input.kind = "operators" =>
               tut = ast_program(<<ast_expr_stmt(
                         LadderTree(input.ops, 1, Len(input.ops) + 1), 1)>>)
        /\ input.kind = "example" =>
               tut = ast_program(<<ExampleNodes[input.example]>>)

\* parse returned for  1 + -x * f(2) .. -a.b[3]  the range of the sum, whose
\* right operand is the product, and of the last operand
C20_Witness ==
    /\ pc = "returned"
    /\ input.kind = "operators"
    /\ tut # NullNode
    /\ Len(tut.statements) = 1
    /\ LET e == tut.statements[1].operand
       IN  /\ e.type = "NODE_RANGE"
           /\ e.end = OperandNode(4)
           /\ e.start.type = "NODE_BINARY"
           /\ e.start.operator = "TOKEN_PLUS"
           /\ e.start.right.type = "NODE_BINARY"
           /\ e.start.right.operator = "TOKEN_STAR"
           /\ e.start.right.left = OperandNode(2)

---------------------------------------------------------------------------
(* The map specification: any sequence of table_set, table_delete and      *)
(* table_get on one table that holds "b", "c", "d" and "e" when it begins, *)
(* with the keys "a", "i" (same slot as "a"), "f" and "b".  The table is   *)
(* two entries from its load limit, so that it grows with live entries and *)
(* tombstones in it.                                                       *)

MaxMapOps == 5

Absent == [type |-> "absent"]

\* before the first table_get, and after a table_set or table_delete
NoGet == [key |-> NULL, result |-> NULL]

\* the string object with the bytes chars
KeyOf(m, chars) ==
    CHOOSE o \in 1..Len(m.heap) :
        m.heap[o].type = "OBJ_STRING" /\ m.heap[o].chars = chars

RECURSIVE set_all(_, _, _, _)
\* table_set of names[i..] to 1
set_all(m, t, names, i) ==
    IF i > Len(names) THEN m
    ELSE set_all(table_set(m, t, KeyOf(m, names[i]), INT_VAL(1), FALSE),
                 t, names, i + 1)

MapHeld == <<<<98>>, <<99>>, <<100>>, <<101>>>>

MapMachine == set_all(LoadMachine.m, LoadMachine.o, MapHeld, 1)

MKeys == {KeyOf(MapMachine, <<97>>), KeyOf(MapMachine, <<105>>),
          KeyOf(MapMachine, <<102>>), KeyOf(MapMachine, <<98>>)}

MValues == {NIL_VAL, INT_VAL(1), INT_VAL(2)}

MapInit ==
    /\ InitMachine(MapMachine)
    /\ tut = LoadMachine.o
    /\ rc0 = <<>>
    /\ parser = NULL
    /\ input = NULL
    /\ map = [of |-> [k \in LKeys |->
                         IF \E i \in 1..Len(MapHeld) : k = KeyOf(MapMachine, MapHeld[i])
                         THEN INT_VAL(1) ELSE Absent],
              got |-> NoGet]
    /\ nops = 0
    /\ program = <<>>
    /\ pc = "map"
    /\ lx = NULL
    /\ tokens = NULL
    /\ storage = NULL

MapSet(k, v) ==
    /\ nops < MaxMapOps
    /\ SetMachine(table_set(Machine, tut, k, v, FALSE))
    /\ map' = [of |-> [map.of EXCEPT ![k] = v], got |-> NoGet]
    /\ nops' = nops + 1
    /\ UNCHANGED <<program, pc, tut, rc0, parser, input, lx, tokens, storage>>

MapDelete(k) ==
    /\ nops < MaxMapOps
    /\ SetMachine(table_delete(Machine, tut, k))
    /\ map' = [of |-> [map.of EXCEPT ![k] = Absent], got |-> NoGet]
    /\ nops' = nops + 1
    /\ UNCHANGED <<program, pc, tut, rc0, parser, input, lx, tokens, storage>>

MapGet(k) ==
    /\ nops < MaxMapOps
    /\ SetMachine(Machine)
    /\ map' = [map EXCEPT !.got = [key |-> k, result |-> table_get(Machine, tut, k)]]
    /\ nops' = nops + 1
    /\ UNCHANGED <<program, pc, tut, rc0, parser, input, lx, tokens, storage>>

MapNext ==
    \/ \E k \in MKeys, v \in MValues : MapSet(k, v)
    \/ \E k \in MKeys : MapDelete(k)
    \/ \E k \in MKeys : MapGet(k)

SpecMap == MapInit /\ [][MapNext]_vars

\* what table_get returns for a key that the map binds to x
Lookup(x) ==
    IF x = Absent THEN [found |-> FALSE, value |-> NIL_VAL]
    ELSE [found |-> TRUE, value |-> x]

\* C30: after any sequence of table_set, table_delete and table_get with
\* interned keys, table_get of every key succeeds exactly when the last
\* set or delete of the key was a set, and then gives the value of that set
\* (nil included); so an operation on one key leaves the result of every
\* other key as it was, also when the table grew or a tombstone was reused.
C30_TableRefinesMap ==
    pc = "map" =>
        /\ \A k \in LKeys : table_get(Machine, tut, k) = Lookup(map.of[k])
        /\ map.got.key # NULL => map.got.result = Lookup(map.of[map.got.key])

\* the table grew to 16 entries while "a" was a tombstone in front of "i";
\* "i" is bound to nil, and the last call was table_get of "i"
C30_Witness ==
    /\ pc = "map"
    /\ heap[tut].capacity = 16
    /\ map.of[KeyOf(Machine, <<97>>)] = Absent
    /\ map.of[KeyOf(Machine, <<105>>)] = NIL_VAL
    /\ map.of[KeyOf(Machine, <<102>>)] # Absent
    /\ map.got.key # NULL
    /\ map.got.key = KeyOf(Machine, <<105>>)

---------------------------------------------------------------------------
(* Programs with break, continue, return and errors inside calls, blocks   *)
(* and loops.                                                              *)
(*  1  fn f() { break }                                                    *)
(*  2  fn g() { continue }                                                 *)
(*  3  for i in 0..2 { f()  print(i) }                                     *)
(*  4  for i in 0..2 { g()  print(i) }                                     *)
(*  5  fn h() { for j in 0..2 { break }  return 1 }                        *)
(*  6  for i in 0..2 { h()  print(i) }                                     *)
(*  7  f()                                                                 *)
(*  8  print(8)                                                            *)
(*  9  if true { y := 1 / 0 }                                              *)
(* 10  if true { f(1)  print(10) }                                         *)
(* 11  fn r() { for j in 0..2 { if true { return j } }  print(11) }        *)
(* 12  r()                                                                 *)
(* 13  while true { if true { break } }                                    *)

MaxFlowStmts == 3

N_r == <<114>>
N_j == <<106>>

\* for name in 0..2 { stmts }
ForTwo(name, stmts, line) ==
    ast_for(name, ast_range(ast_int_literal(0, line), ast_int_literal(2, line), line),
            ast_block(stmts, line), line)

\* print(name) and print(n)
PrintVar(name, line) ==
    ast_expr_stmt(ast_call(ast_identifier(N_print, line),
                           <<ast_identifier(name, line)>>, line), line)
PrintInt(n, line) ==
    ast_expr_stmt(ast_call(ast_identifier(N_print, line),
                           <<ast_int_literal(n, line)>>, line), line)

FlowStmts ==
    { ast_fn_decl(N_f, <<>>, ast_block(<<ast_break(1)>>, 1), 1),
      ast_fn_decl(N_g, <<>>, ast_block(<<ast_continue(2)>>, 2), 2),
      ForTwo(N_i, <<CallStmt(N_f, 3), PrintVar(N_i, 3)>>, 3),
      ForTwo(N_i, <<CallStmt(N_g, 4), PrintVar(N_i, 4)>>, 4),
      ast_fn_decl(N_h, <<>>,
          ast_block(<<ForTwo(N_j, <<ast_break(5)>>, 5),
                      ast_return(ast_int_literal(1, 5), 5)>>, 5), 5),
      ForTwo(N_i, <<CallStmt(N_h, 6), PrintVar(N_i, 6)>>, 6),
      CallStmt(N_f, 7),
      PrintInt(8, 8),
      IfTrue(<<ast_var_decl(N_y, DivByZero(9), FALSE, 9)>>, 9),
      IfTrue(<<ast_expr_stmt(CallInts(N_f, <<1>>, 10), 10), PrintInt(10, 10)>>, 10),
      ast_fn_decl(N_r, <<>>,
          ast_block(<<ForTwo(N_j, <<IfTrue(<<ast_return(ast_identifier(N_j, 11), 11)>>,
                                           11)>>, 11),
                      PrintInt(11, 11)>>, 11), 11),
      CallStmt(N_r, 12),
      ast_while(ast_bool_literal(TRUE, 13),
                ast_block(<<IfTrue(<<ast_break(13)>>, 13)>>, 13), 13) }

FlowStatement(stmt) ==
    /\ Len(program) < MaxFlowStmts
    /\ ExecStatement(stmt)

NextFlow ==
    \/ \E stmt \in FlowStmts : FlowStatement(stmt)
    \/ Destroy

SpecFlow == InterpInit /\ [][NextFlow]_vars

\* C28: when a call of a script function returns, the breaking and the
\* continuing flag are clear, whatever break or continue the function
\* executed outside a loop of its own; so the loop around the call goes on
\* with the statement after the call.
C28_BreakStaysInFunction ==
    \A x \in Events("call_exit") :
        ~trace[x].error => ~trace[x].breaking /\ ~trace[x].continuing

\* C29: after every top-level statement the current environment is the root
\* environment; every block and every call of a script function ends with
\* the current environment it began with, also when it ends through
\* return, break, continue or a runtime error; and the statements of one
\* block execution all begin in the same environment, so no statement and
\* no call between them, refused calls included, left another one behind
\* (the body of a for loop is a block that begins in the loop's environment
\* and is held to its own beginning, as every block is).
C29_ScopeRestored ==
    /\ pc = "exec_program" => interp.current = interp.global
    /\ \A x \in Events("block_exit") \cup Events("call_exit") :
           trace[x].current = trace[trace[x].id].previous
    /\ \A a \in Events("stmt") : \A b \in Events("stmt") :
           /\ trace[a].frame = trace[b].frame
           /\ trace[a].type # "NODE_BLOCK"
           /\ trace[b].type # "NODE_BLOCK"
           => trace[a].env = trace[b].env

\* r() returned from inside a block inside a for loop inside its body, and
\* then a block ended with a runtime error
C29_Witness ==
    /\ pc = "exec_program"
    /\ interp.had_error
    /\ \E x \in Events("call_exit") : trace[x].explicit
    /\ \E x \in Events("block_exit") : trace[x].error

---------------------------------------------------------------------------
(* The lexer specification: lexer_next_token called on a source until it   *)
(* returns the end-of-input token.  The sources are all texts of at most   *)
(* MaxChars bytes over the bytes of the operators and a digit, and over    *)
(* the bytes of blanks, comments, lines, strings and an illegal character. *)

MaxChars == 4

\* = ! < > : . - 1
OperatorBytes == {61, 33, 60, 62, 58, 46, 45, 49}

\* space tab CR # newline x " $
TextBytes == {32, 9, 13, 35, 10, 120, 34, 36}

LexSources ==
    UNION {[1..n -> OperatorBytes] \cup [1..n -> TextBytes] : n \in 0..MaxChars}

LexInit ==
    /\ InitMachine(EmptyMachine)
    /\ rc0 = <<>>
    /\ nops = 0
    /\ tut = NULL
    /\ program = <<>>
    /\ parser = NULL
    /\ input = NULL
    /\ map = NULL
    /\ pc = "lexing"
    /\ tokens = <<>>
    /\ \E source \in LexSources : lx = lexer_init(source)
    /\ storage = NULL

LexNextToken ==
    /\ pc = "lexing"
    /\ LET r == lexer_next_token(lx)
       IN  /\ lx' = r.lexer
           /\ tokens' = Append(tokens, [at |-> lx.current, token |-> r.token])
           /\ pc' = IF r.token.type = "TOKEN_EOF" THEN "lexed" ELSE "lexing"
    /\ nops' = 0
    /\ SetMachine(Machine)
    /\ UNCHANGED <<program, tut, rc0, parser, input, map, storage>>

\* lexer_peek_token, which leaves the lexer as it is; nops counts the peeks
\* since the last token
LexPeekToken ==
    /\ pc = "lexing"
    /\ nops = 0
    /\ tut' = lexer_peek_token(lx)
    /\ nops' = 1
    /\ SetMachine(Machine)
    /\ UNCHANGED <<program, pc, rc0, parser, input, map, lx, tokens, storage>>

NextLex ==
    \/ LexNextToken
    \/ LexPeekToken

SpecLex == LexInit /\ [][NextLex]_vars

\* the two-byte operators and their tokens
TwoByteOperators ==
    [pair \in {<<61, 61>>, <<33, 61>>, <<60, 61>>, <<62, 61>>, <<58, 58>>,
               <<58, 61>>, <<46, 46>>, <<61, 62>>, <<45, 62>>} |->
        CASE pair = <<61, 61>> -> "TOKEN_EQEQ"
          [] pair = <<33, 61>> -> "TOKEN_NEQ"
          [] pair = <<60, 61>> -> "TOKEN_LTE"
          [] pair = <<62, 61>> -> "TOKEN_GTE"
          [] pair = <<58, 58>> -> "TOKEN_COLONCOLON"
          [] pair = <<58, 61>> -> "TOKEN_COLONEQ"
          [] pair = <<46, 46>> -> "TOKEN_DOTDOT"
          [] pair = <<61, 62>> -> "TOKEN_ARROW"
          [] pair = <<45, 62>> -> "TOKEN_RARROW"]

RECURSIVE DigitRun(_, _)
\* the number of decimal digits of source from position i on
DigitRun(source, i) ==
    IF is_digit(CharAt(source, i)) THEN 1 + DigitRun(source, i + 1) ELSE 0

\* the two bytes of source at position i
PairAt(source, i) == <<CharAt(source, i), CharAt(source, i + 1)>>

\* C21: when the unread input begins with a two-byte operator the token
\* returned is that operator's, two bytes long; when it begins with digits
\* followed by `..` the token is an INT of those digits and the next token
\* is DOTDOT; and a FLOAT token has a '.' followed by a digit in it.
C21_TwoByteOperators ==
    \A k \in 1..Len(tokens) :
        LET at == tokens[k].at
            token == tokens[k].token
            digits == DigitRun(lx.source, at)
        IN  /\ PairAt(lx.source, at) \in DOMAIN TwoByteOperators =>
                   /\ token.type = TwoByteOperators[PairAt(lx.source, at)]
                   /\ token.start = at
                   /\ token.length = 2
            /\ (digits > 0 /\ PairAt(lx.source, at + digits) = <<46, 46>>) =>
                   /\ token.type = "TOKEN_INT"
                   /\ token.start = at
                   /\ token.length = digits
                   /\ k < Len(tokens) =>
                          /\ tokens[k + 1].token.type = "TOKEN_DOTDOT"
                          /\ tokens[k + 1].token.start = at + digits
            /\ token.type = "TOKEN_FLOAT" =>
                   \E i \in token.start..(token.start + token.length - 2) :
                       /\ lx.source[i] = 46
                       /\ is_digit(lx.source[i + 1])

\* the source is `1..1`: INT, DOTDOT, INT and the end of the input
C21_Witness ==
    /\ pc = "lexed"
    /\ lx.source = <<49, 46, 46, 49>>
    /\ Len(tokens) = 4
    /\ tokens[1].token.type = "TOKEN_INT"
    /\ tokens[2].token.type = "TOKEN_DOTDOT"
    /\ tokens[3].token.type = "TOKEN_INT"

RECURSIVE OnlySkipped(_)
\* bytes is what skip_whitespace skips: blanks, and a comment up to the end
\* of its line
OnlySkipped(bytes) ==
    \/ bytes = <<>>
    \/ Head(bytes) \in {32, 9, 13} /\ OnlySkipped(Tail(bytes))
    \/ Head(bytes) = 35 /\ \A i \in 1..Len(bytes) : bytes[i] # 10

\* the position after the slice of token k; 1 for k = 0
EndOf(k) ==
    IF k = 0 THEN 1 ELSE tokens[k].token.start + tokens[k].token.length

\* C22: when the end-of-input token has been returned, every token's slice
\* (start, length) lies inside the source, the slices follow one another
\* in the source without overlap, the bytes between two slices and before
\* the first are blanks and comments only, and the end-of-input token is
\* at the end; so the slices, concatenated, are the source without its
\* skipped blanks and comments.
C22_SlicesRebuildSource ==
    pc = "lexed" =>
        /\ \A k \in 1..Len(tokens) :
               /\ tokens[k].token.start >= EndOf(k - 1)
               /\ EndOf(k) <= Len(lx.source) + 1
               /\ OnlySkipped(SubSeq(lx.source, EndOf(k - 1),
                                     tokens[k].token.start - 1))
        /\ EndOf(Len(tokens)) = Len(lx.source) + 1

---------------------------------------------------------------------------
(* The @c specification: parse() on `@c {` body `}` rest, and on           *)
(* `@c {` body without the closing brace.  The bodies are the texts of at  *)
(* most MaxBody bytes over { } x and space whose braces are balanced.      *)

MaxBody == 3

RECURSIVE Depth(_, _)
\* the brace depth after the first n bytes of text, -1 once a closing brace
\* had no opening brace
Depth(text, n) ==
    IF n = 0 THEN 0
    ELSE LET d == Depth(text, n - 1)
         IN  IF d < 0 THEN -1
             ELSE IF text[n] = 123 THEN d + 1
             ELSE IF text[n] = 125 THEN d - 1
             ELSE d

Bodies ==
    {text \in UNION {[1..n -> {123, 125, 120, 32}] : n \in 0..MaxBody} :
        /\ Depth(text, Len(text)) = 0
        /\ \A n \in 0..Len(text) : Depth(text, n) >= 0}

\* nothing, ` y` on the same line, and `y` on the next line
Rests == {<<>>, <<32, 121>>, <<10, 121>>}

CBlockInputs ==
    {[kind |-> "c_block", body |-> body, closed |-> TRUE, rest |-> rest] :
        body \in Bodies, rest \in Rests}
    \cup {[kind |-> "c_block", body |-> body, closed |-> FALSE, rest |-> <<>>] :
             body \in Bodies}

\* @c {
CBlockSource(in) ==
    <<64, 99, 32, 123>> \o in.body \o (IF in.closed THEN <<125>> ELSE <<>>) \o in.rest

CBlockInit ==
    /\ InitMachine(EmptyMachine)
    /\ rc0 = <<>>
    /\ nops = 0
    /\ tut = NULL
    /\ program = <<>>
    /\ map = NULL
    /\ lx = NULL
    /\ tokens = NULL
    /\ pc = "parse_program"
    /\ input \in CBlockInputs
    /\ parser = parser_init(lexer_init(CBlockSource(input)))
    /\ storage = NULL

\* What follows a read beyond the end of the source is undefined: the
\* process is stopped by the system, or parse goes on over the bytes it
\* finds and returns NULL or some tree.
ParseOverrun ==
    /\ pc = "parse_program"
    /\ Overrun(parser)
    /\ \E outcome \in {"crashed", "returned"} :
          /\ pc' = outcome
          /\ tut' \in IF outcome = "crashed" THEN {NullNode}
                      ELSE {NullNode, ast_program(program)}
    /\ SetMachine(Machine)
    /\ UNCHANGED <<program, rc0, nops, parser, input, map, lx, tokens, storage>>

NextCBlock ==
    \/ ParseStatement
    \/ ParseReturn
    \/ ParseOverrun

SpecCBlock == CBlockInit /\ [][NextCBlock]_vars

\* the statements of a rest, as trees
RestNodes(rest) ==
    IF rest = <<>> THEN <<>>
    ELSE LET line == IF rest[1] = 10 THEN 2 ELSE 1
         IN  <<ast_expr_stmt(ast_identifier(<<121>>, line), line)>>

\* C25: parse never reads beyond the end of the source, with or without
\* the closing brace; and for `@c {` body `}` rest it returns the program
\* of the @c node, whose code is the body (the first token of the body
\* included, and the empty body), followed by the statements of the rest,
\* which is where the parser goes on after the closing brace.
C25_CBlockCaptured ==
    /\ ~Overrun(parser)
    /\ pc # "crashed"
    /\ (pc = "returned" /\ input.closed) =>
           tut = ast_program(<<ast_c_block(input.body, 1)>> \o RestNodes(input.rest))

---------------------------------------------------------------------------
(* The struct specification (cffi.c): a descriptor is created for at most  *)
(* MaxFields fields, cstruct_desc_add_field fills fields in any order and  *)
(* more than once, and cstruct_desc_finalize lays the fields out.          *)

MaxFields == 3

CTypes ==
    {"CTYPE_VOID", "CTYPE_CHAR", "CTYPE_SCHAR", "CTYPE_UCHAR", "CTYPE_SHORT",
     "CTYPE_USHORT", "CTYPE_INT", "CTYPE_UINT", "CTYPE_LONG", "CTYPE_ULONG",
     "CTYPE_LONGLONG", "CTYPE_ULONGLONG", "CTYPE_FLOAT", "CTYPE_DOUBLE",
     "CTYPE_POINTER", "CTYPE_STRING", "CTYPE_STRUCT", "CTYPE_BOOL",
     "CTYPE_SIZE_T", "CTYPE_INT8", "CTYPE_INT16", "CTYPE_INT32", "CTYPE_INT64",
     "CTYPE_UINT8", "CTYPE_UINT16", "CTYPE_UINT32", "CTYPE_UINT64"}

ctype_size(type) ==
    CASE type = "CTYPE_VOID" -> 0
      [] type \in {"CTYPE_CHAR", "CTYPE_SCHAR", "CTYPE_UCHAR", "CTYPE_INT8",
                   "CTYPE_UINT8"} -> 1
      [] type \in {"CTYPE_SHORT", "CTYPE_USHORT", "CTYPE_INT16",
                   "CTYPE_UINT16"} -> 2
      [] type \in {"CTYPE_INT", "CTYPE_UINT", "CTYPE_BOOL", "CTYPE_INT32",
                   "CTYPE_UINT32", "CTYPE_FLOAT"} -> 4
      [] type \in {"CTYPE_LONG", "CTYPE_ULONG", "CTYPE_LONGLONG",
                   "CTYPE_ULONGLONG", "CTYPE_POINTER", "CTYPE_STRING",
                   "CTYPE_SIZE_T", "CTYPE_INT64", "CTYPE_UINT64",
                   "CTYPE_DOUBLE"} -> 8
      [] OTHER -> 0

RECURSIVE BitAnd(_, _)
\* a & b on int, bit by bit over the two's complement patterns: a \div 2
\* is a >> 1, and all the bits of -1 are set
BitAnd(a, b) ==
    IF a = 0 \/ b = 0 THEN 0
    ELSE IF a = -1 THEN b
    ELSE IF b = -1 THEN a
    ELSE (a % 2) * (b % 2) + 2 * BitAnd(a \div 2, b \div 2)

\* ~a on int
BitNot(a) == -a - 1

align_offset_none(offset, field_align) == offset

\* (offset + field_align - 1) & ~(field_align - 1)
align_offset(offset, field_align) ==
    BitAnd(offset + field_align - 1, BitNot(field_align - 1))

\* a field of the array that mem_alloc returned, before it is filled
UnsetField == [type |-> "unset", offset |-> 0, size |-> 0]

cstruct_desc_create(field_count) ==
    [fields |-> [i \in 1..field_count |-> UnsetField],
     field_count |-> field_count,
     size |-> 0,
     alignment |-> 0]

\* index counts from 0
cstruct_desc_add_field(desc, index, type, offset, size) ==
    [desc EXCEPT !.fields[index + 1] =
        [type |-> type, offset |-> offset, size |-> size]]

RECURSIVE finalize_fields(_, _, _, _)
\* the for loop of cstruct_desc_finalize from field i (counted from 0)
finalize_fields(desc, i, offset, max_align) ==
    IF ~(i < desc.field_count)
    THEN [desc |-> desc, offset |-> offset, max_align |-> max_align]
    ELSE LET field == desc.fields[i + 1]
             field_size == ctype_size(field.type)
             size_align == IF field_size > 0 THEN field_size ELSE 1
             field_align == IF size_align > 8 THEN 8 ELSE size_align
             aligned == align_offset(offset, field_align)
         IN  finalize_fields(
                 [desc EXCEPT !.fields[i + 1].offset = aligned,
                              !.fields[i + 1].size = field_size],
                 i + 1,
                 aligned + field_size,
                 IF field_align > max_align THEN field_align ELSE max_align)

cstruct_desc_finalize(desc) ==
    Bind(finalize_fields(desc, 0, 0, 1), LAMBDA r :
        [r.desc EXCEPT !.size = align_offset(r.offset, r.max_align),
                       !.alignment = r.max_align])

\* the types of the fields under test: one of each size, and the two of
\* size 0
FieldTypes ==
    {"CTYPE_VOID", "CTYPE_CHAR", "CTYPE_SHORT", "CTYPE_INT", "CTYPE_DOUBLE",
     "CTYPE_STRUCT"}

\* the offset and size a caller passes to cstruct_desc_add_field
FieldArgs == {<<0, 0>>, <<5, 3>>}

StructInit ==
    /\ InitMachine(EmptyMachine)
    /\ rc0 = <<>>
    /\ nops = 0
    /\ program = <<>>
    /\ parser = NULL
    /\ input = NULL
    /\ map = NULL
    /\ lx = NULL
    /\ tokens = NULL
    /\ pc = "add_fields"
    /\ \E field_count \in 0..MaxFields : tut = cstruct_desc_create(field_count)
    /\ storage = NULL

StructAddField ==
    /\ pc = "add_fields"
    /\ \E index \in 0..(tut.field_count - 1), type \in FieldTypes, args \in FieldArgs :
          tut' = cstruct_desc_add_field(tut, index, type, args[1], args[2])
    /\ SetMachine(Machine)
    /\ UNCHANGED <<program, pc, rc0, nops, parser, input, map, lx, tokens, storage>>

\* The type of a field that was never filled is whatever the allocated
\* memory holds: any type.
StructFinalize ==
    /\ pc = "add_fields"
    /\ \E types \in [1..tut.field_count -> FieldTypes] :
          /\ \A i \in 1..tut.field_count :
                 tut.fields[i] # UnsetField => types[i] = tut.fields[i].type
          /\ tut' = cstruct_desc_finalize(
                        [tut EXCEPT !.fields =
                            [i \in 1..tut.field_count |->
                                [tut.fields[i] EXCEPT !.type = types[i]]]])
    /\ pc' = "finalized"
    /\ SetMachine(Machine)
    /\ UNCHANGED <<program, rc0, nops, parser, input, map, lx, tokens, storage>>

NextStruct ==
    \/ StructAddField
    \/ StructFinalize

SpecStruct == StructInit /\ [][NextStruct]_vars

\* min(max(size, 1), 8)
NaturalAlign(size) ==
    LET at_least_1 == IF size > 1 THEN size ELSE 1
    IN  IF at_least_1 < 8 THEN at_least_1 ELSE 8

\* the end of the last field, 0 without fields
EndOfFields(desc) ==
    IF desc.field_count = 0 THEN 0
    ELSE desc.fields[desc.field_count].offset + desc.fields[desc.field_count].size

\* C27: after cstruct_desc_finalize the offset of each field is a multiple
\* of its alignment min(max(size, 1), 8); each field begins at or after the
\* end of the field before it; the alignment of the struct is the largest
\* alignment of its fields; and the size of the struct is the smallest
\* multiple of that alignment that is at least the end of the last field.
C27_StructLayout ==
    pc = "finalized" =>
        LET n == tut.field_count
            f == tut.fields
        IN  /\ \A i \in 1..n : f[i].offset % NaturalAlign(f[i].size) = 0
            /\ n > 0 => f[1].offset >= 0
            /\ \A i \in 1..(n - 1) : f[i + 1].offset >= f[i].offset + f[i].size
            /\ n > 0 =>
                  /\ \E i \in 1..n : tut.alignment = NaturalAlign(f[i].size)
                  /\ \A i \in 1..n : tut.alignment >= NaturalAlign(f[i].size)
            /\ tut.alignment > 0
            /\ tut.size % tut.alignment = 0
            /\ tut.size >= EndOfFields(tut)
            /\ tut.size - tut.alignment < EndOfFields(tut)

\* a finalized struct with padding between two fields and after the last
C27_Witness ==
    /\ pc = "finalized"
    /\ tut.field_count >= 2
    /\ \E i \in 1..(tut.field_count - 1) :
          tut.fields[i + 1].offset > tut.fields[i].offset + tut.fields[i].size
    /\ tut.size > EndOfFields(tut)

---------------------------------------------------------------------------
(* The marshal specification: marshal_to_c on a value and a type, then     *)
(* marshal_from_c with the same type on the slot it wrote.                 *)

\* the heap of the values: the strings "" and "a" and a pointer object
MarshalMachine ==
    Bind(string_create(EmptyMachine, <<>>), LAMBDA s1 :
    Bind(string_create(s1.m, <<97>>), LAMBDA s2 :
    Bind(pointer_create(s2.m, CPointer("address", INT_VAL(4096)), "void*"), LAMBDA p1 :
        [m |-> p1.m, values |-> {OBJ_VAL(s1.o), OBJ_VAL(s2.o), OBJ_VAL(p1.o)}])))

\* 0.5, 3.0 and 16777217.0, which is no float
MarshalFloats == {FLOAT_VAL(Normal(1, -1)), FLOAT_VAL(Normal(3, 0)),
                  FLOAT_VAL(Normal(16777217, 0))}

\* 2^32 is the int beyond 32 bits
MarshalInts == {INT_VAL(0), INT_VAL(1), INT_VAL(-1), INT_VAL(97), INT_VAL(200),
                INT_VAL(40000), INT_VAL(16777217), WIDE_INT_VAL(1, 0)}

MarshalValues ==
    {NIL_VAL, BOOL_VAL(TRUE), BOOL_VAL(FALSE)} \cup MarshalInts \cup MarshalFloats
    \cup MarshalMachine.values

MarshalInit ==
    /\ InitMachine(MarshalMachine.m)
    /\ rc0 = <<>>
    /\ nops = 0
    /\ tut = NULL
    /\ program = <<>>
    /\ parser = NULL
    /\ map = NULL
    /\ lx = NULL
    /\ tokens = NULL
    /\ storage = Unwritten
    /\ pc = "marshal_to_c"
    /\ input \in [value : MarshalValues, type : CTypes]

MarshalToC ==
    /\ pc = "marshal_to_c"
    /\ LET r == marshal_to_c(Machine, input.value, input.type, storage)
       IN  /\ storage' = r.out
           /\ pc' = IF r.ok THEN "marshal_from_c" ELSE "refused"
    /\ SetMachine(Machine)
    /\ UNCHANGED <<program, tut, rc0, nops, parser, input, map, lx, tokens>>

MarshalFromC ==
    /\ pc = "marshal_from_c"
    /\ LET r == marshal_from_c(Machine, storage, input.type)
       IN  /\ SetMachine(r.m)
           /\ tut' = r.value
    /\ pc' = "done"
    /\ UNCHANGED <<program, rc0, nops, parser, input, map, lx, tokens, storage>>

NextMarshal ==
    \/ MarshalToC
    \/ MarshalFromC

SpecMarshal == MarshalInit /\ [][NextMarshal]_vars

\* the value is within what the type can hold; void holds nothing
InRange(m, value, type) ==
    CASE type = "CTYPE_VOID" -> FALSE
      [] IS_INT(value) /\ type \in {"CTYPE_CHAR", "CTYPE_SCHAR", "CTYPE_INT8"} ->
            value.hi = 0 /\ value.as \in -128..127
      [] IS_INT(value) /\ type \in {"CTYPE_UCHAR", "CTYPE_UINT8"} ->
            value.hi = 0 /\ value.as \in 0..255
      [] IS_INT(value) /\ type \in {"CTYPE_SHORT", "CTYPE_INT16"} ->
            value.hi = 0 /\ value.as \in -32768..32767
      [] IS_INT(value) /\ type \in {"CTYPE_USHORT", "CTYPE_UINT16"} ->
            value.hi = 0 /\ value.as \in 0..65535
      [] IS_INT(value) /\ type \in {"CTYPE_INT", "CTYPE_INT32"} -> value.hi = 0
      [] IS_INT(value) /\ type = "CTYPE_BOOL" -> value.hi = 0 /\ value.as \in {0, 1}
      [] IS_INT(value) /\ type \in {"CTYPE_UINT", "CTYPE_UINT32"} ->
            (value.hi = 0 /\ value.as >= 0) \/ (value.hi = 1 /\ value.as < 0)
      [] IS_INT(value) /\ type \in {"CTYPE_ULONG", "CTYPE_UINT64", "CTYPE_SIZE_T",
                                    "CTYPE_ULONGLONG"} ->
            value.hi > 0 \/ (value.hi = 0 /\ value.as >= 0)
      [] IS_NUMBER(value) /\ type = "CTYPE_FLOAT" ->
            DoubleToFloat(AS_NUMBER(value)) = AS_NUMBER(value)
      [] OTHER -> TRUE

\* C23: a value that marshal_to_c accepts for a type and that is within the
\* range of the type comes back from marshal_from_c, with the same type,
\* equal to itself under value_equals.
C23_MarshalRoundTrip ==
    (pc = "done" /\ InRange(Machine, input.value, input.type))
        => value_equals(Machine, tut, input.value)

---------------------------------------------------------------------------
(* The foreign call specification: exec_program on programs of at most     *)
(* MaxFfiStmts statements over two C functions bound in the global         *)
(* environment, int abs(int) and the variadic int printf(char*, ...).      *)
(*                                                                         *)
(*  1  abs(1)             5  printf()                                      *)
(*  2  abs()              6  printf("a")                                   *)
(*  3  abs(1, 2)          7  printf("a", 1)                                *)
(*  4  abs(nil)           8  printf(1)                                     *)
(*                        9  print(9)                                      *)

MaxFfiStmts == 3

N_abs == <<97, 98, 115>>
N_printf == <<112, 114, 105, 110, 116, 102>>

\* both functions return the int 1
FfiMachine ==
    Bind(interp_init(EmptyMachine), LAMBDA m0 :
    Bind(cfunction_create(m0, cfunc_create("abs", "CTYPE_INT", <<"CTYPE_INT">>, FALSE,
                                           CInt(INT_VAL(1)))), LAMBDA f1 :
    Bind(env_define(f1.m, f1.m.interp.global, N_abs, OBJ_VAL(f1.o), FALSE).m, LAMBDA m1 :
    Bind(cfunction_create(m1, cfunc_create("printf", "CTYPE_INT", <<"CTYPE_STRING">>,
                                           TRUE, CInt(INT_VAL(1)))), LAMBDA f2 :
    env_define(f2.m, f2.m.interp.global, N_printf, OBJ_VAL(f2.o), FALSE).m))))

CallOf(name, args, line) ==
    ast_expr_stmt(ast_call(ast_identifier(name, line), args, line), line)

FfiStmts ==
    { CallOf(N_abs, <<ast_int_literal(1, 1)>>, 1),
      CallOf(N_abs, <<>>, 2),
      CallOf(N_abs, <<ast_int_literal(1, 3), ast_int_literal(2, 3)>>, 3),
      CallOf(N_abs, <<ast_nil_literal(4)>>, 4),
      CallOf(N_printf, <<>>, 5),
      CallOf(N_printf, <<ast_string_literal(<<97>>, 6)>>, 6),
      CallOf(N_printf, <<ast_string_literal(<<97>>, 7), ast_int_literal(1, 7)>>, 7),
      CallOf(N_printf, <<ast_int_literal(1, 8)>>, 8),
      PrintInt(9, 9) }

FfiInit ==
    /\ InitMachine(FfiMachine)
    /\ program = <<>>
    /\ pc = "exec_program"
    /\ tut = NULL
    /\ rc0 = <<>>
    /\ parser = NULL
    /\ input = NULL
    /\ nops = 0
    /\ map = NULL
    /\ lx = NULL
    /\ tokens = NULL
    /\ storage = NULL

FfiStatement(stmt) ==
    /\ Len(program) < MaxFfiStmts
    /\ ExecStatement(stmt)

NextFfi ==
    \/ \E stmt \in FfiStmts : FfiStatement(stmt)
    \/ Destroy

SpecFfi == FfiInit /\ [][NextFfi]_vars

\* the event of the call that event e belongs to
CallBefore(e) == MaxOf({c \in Events("call") : c < e})

\* C24: when cffi_call refuses a call for its number of arguments or for
\* the kind of an argument, the C function is not called, the call results
\* in nil, and the error is recorded in the evaluator: the error flag is
\* set and no statement is executed and no function is called afterwards.
C24_ForeignErrorStops ==
    \A e \in Events("ffi_error") :
        /\ \A i \in CallBefore(e)..e : trace[i].ev # "ffi_call"
        /\ trace[e + 1].ev = "ffi_return" /\ trace[e + 1].result = NIL_VAL
        /\ interp.had_error
        /\ \A i \in (e + 2)..Len(trace) :
              trace[i].ev \notin {"stmt", "call", "native", "print", "ffi_call"}

---------------------------------------------------------------------------
(* The header reader (cheader.c).  A CHeaderParser p holds the source, a   *)
(* NUL-terminated text whose NUL is at index Len(source) + 1, the cursor   *)
(* current (an index), the line, and what was parsed: the functions, and   *)
(* the numbers of enums and macros (their values do not move the cursor).  *)
(* Two history fields are added: loops, one event for each iteration of    *)
(* parse_function's parameter loop, and smashed, set when read_type wrote  *)
(* beyond its buffer.                                                      *)

IS_SPACE(c) == c = 32 \/ c = 9 \/ c = 13
IS_ALPHA(c) == (c >= 97 /\ c <= 122) \/ (c >= 65 /\ c <= 90) \/ c = 95
IS_DIGIT(c) == c >= 48 /\ c <= 57
IS_ALNUM(c) == IS_ALPHA(c) \/ IS_DIGIT(c)

\* p->current[k]; the bytes after the NUL are not the source's to read
Cur(p, k) ==
    IF p.current + k = Len(p.source) + 1 THEN 0 ELSE p.source[p.current + k]

\* the byte at index i of the source, the NUL at its end
ByteAt(p, i) == IF i = Len(p.source) + 1 THEN 0 ELSE p.source[i]

\* p->current += n
Skip(p, n) == [p EXCEPT !.current = @ + n]

\* the first index from p->current on whose byte is in stops or is the NUL
FirstOf(p, stops) ==
    CHOOSE i \in p.current..(Len(p.source) + 1) :
        /\ ByteAt(p, i) \in stops \cup {0}
        /\ \A j \in p.current..(i - 1) : ByteAt(p, j) \notin stops \cup {0}

\* the newlines from p->current up to index i, i not included
Newlines(p, i) == Cardinality({j \in p.current..(i - 1) : ByteAt(p, j) = 10})

\* the cursor moved to index i >= p->current, the lines on the way counted
MoveTo(p, i) == [p EXCEPT !.current = i, !.line = @ + Newlines(p, i)]

\* strncmp(p->current, kw, strlen(kw)) == 0
StartsWith(p, kw) == \A i \in 1..Len(kw) : Cur(p, i - 1) = kw[i]

\* the condition of match_keyword; when it holds the cursor moves by
\* strlen(kw)
match_keyword(p, kw) == StartsWith(p, kw) /\ ~IS_ALNUM(Cur(p, Len(kw)))

\* the end of a block comment whose body begins at p->current: the index
\* of its closing star, or of the NUL
CommentEnd(p) ==
    CHOOSE i \in p.current..(Len(p.source) + 1) :
        /\ ByteAt(p, i) = 0 \/ (ByteAt(p, i) = 42 /\ ByteAt(p, i + 1) = 47)
        /\ \A j \in p.current..(i - 1) :
               ~(ByteAt(p, j) = 0 \/ (ByteAt(p, j) = 42 /\ ByteAt(p, j + 1) = 47))

RECURSIVE skip_space(_)
skip_space(p) ==
    IF Cur(p, 0) = 0 THEN p
    ELSE IF IS_SPACE(Cur(p, 0)) THEN skip_space(Skip(p, 1))
    ELSE IF Cur(p, 0) = 10 THEN skip_space([p EXCEPT !.current = @ + 1, !.line = @ + 1])
    ELSE IF Cur(p, 0) = 47 /\ Cur(p, 1) = 47
         THEN skip_space([p EXCEPT !.current = FirstOf(p, {10})])
    ELSE IF Cur(p, 0) = 47 /\ Cur(p, 1) = 42
         THEN Bind(Skip(p, 2), LAMBDA p1 :
              Bind(MoveTo(p1, CommentEnd(p1)), LAMBDA p2 :
                  skip_space(IF Cur(p2, 0) # 0 THEN Skip(p2, 2) ELSE p2)))
    ELSE p

\* the identifier at the cursor ends before this index
IdentEnd(p) ==
    CHOOSE i \in p.current..(Len(p.source) + 1) :
        /\ ~IS_ALNUM(ByteAt(p, i))
        /\ \A j \in p.current..(i - 1) : IS_ALNUM(ByteAt(p, j))

\* ok is FALSE where read_ident returns NULL
read_ident(p) ==
    Bind(skip_space(p), LAMBDA p1 :
        IF ~IS_ALPHA(Cur(p1, 0)) THEN [p |-> p1, ok |-> FALSE, name |-> <<>>]
        ELSE [p |-> [p1 EXCEPT !.current = IdentEnd(p1)], ok |-> TRUE,
              name |-> SubSeq(p1.source, p1.current, IdentEnd(p1) - 1)])

skip_to(p, c) == MoveTo(p, FirstOf(p, {c}))

RECURSIVE skip_balanced(_, _, _, _)
\* the while loop of skip_braces and skip_parens, from one opening or
\* closing character to the next: the characters between them only move
\* the cursor and count the lines
skip_balanced(p, open, close, depth) ==
    IF ~(Cur(p, 0) # 0 /\ depth > 0) THEN p
    ELSE IF Cur(p, 0) = open THEN skip_balanced(Skip(p, 1), open, close, depth + 1)
    ELSE IF Cur(p, 0) = close THEN skip_balanced(Skip(p, 1), open, close, depth - 1)
    ELSE skip_balanced(MoveTo(p, FirstOf(p, {open, close})), open, close, depth)

skip_braces(p) == skip_balanced(Skip(p, 1), 123, 125, 1)
skip_parens(p) == skip_balanced(Skip(p, 1), 40, 41, 1)

\* the prefixes skip_gnu_extension compares with strncmp
GnuExtensions ==
    {
        <<95, 95, 97, 116, 116, 114, 105, 98, 117, 116, 101, 95, 95>>,   \* __attribute__
        <<95, 95, 97, 115, 109, 95, 95>>,   \* __asm__
        <<95, 95, 97, 115, 109>>,   \* __asm
        <<95, 95, 101, 120, 116, 101, 110, 115, 105, 111, 110, 95, 95>>,   \* __extension__
        <<95, 95, 105, 110, 108, 105, 110, 101, 95, 95>>,   \* __inline__
        <<95, 95, 105, 110, 108, 105, 110, 101>>,   \* __inline
        <<95, 95, 114, 101, 115, 116, 114, 105, 99, 116>>,   \* __restrict
        <<95, 95, 99, 111, 110, 115, 116>>,   \* __const
        <<95, 95, 118, 111, 108, 97, 116, 105, 108, 101>>,   \* __volatile
        <<95, 95, 110, 111, 110, 110, 117, 108, 108>>,   \* __nonnull
        <<95, 95, 119, 117, 114>>,   \* __wur
        <<95, 95, 84, 72, 82, 79, 87>>,   \* __THROW
        <<95, 95, 110, 111, 116, 104, 114, 111, 119>>   \* __nothrow
    }

RECURSIVE skip_paren_groups(_)
\* skip_gnu_extension: while (*p->current == '(') { skip_parens; skip_space }
skip_paren_groups(p) ==
    IF Cur(p, 0) = 40 THEN skip_paren_groups(skip_space(skip_parens(p))) ELSE p

RECURSIVE skip_gnu_loop(_)
\* the while loop of skip_gnu_extension
skip_gnu_loop(p) ==
    IF ~(Cur(p, 0) = 95 /\ Cur(p, 1) = 95) THEN p
    ELSE IF \E kw \in GnuExtensions : StartsWith(p, kw)
         THEN Bind([p EXCEPT !.current = IdentEnd(p)], LAMBDA p1 :
              Bind(skip_paren_groups(skip_space(p1)), LAMBDA p2 :
                  skip_gnu_loop(skip_space(p2))))
    ELSE p

skip_gnu_extension(p) == skip_gnu_loop(skip_space(p))

\* the size of read_type's buffer
BufferSize == 256

\* the qualifiers that read_type skips without a note in the buffer
SkippedQualifiers ==
    {
        <<118, 111, 108, 97, 116, 105, 108, 101>>,   \* volatile
        <<115, 116, 97, 116, 105, 99>>,   \* static
        <<101, 120, 116, 101, 114, 110>>,   \* extern
        <<105, 110, 108, 105, 110, 101>>,   \* inline
        <<114, 101, 103, 105, 115, 116, 101, 114>>   \* register
    }

RECURSIVE read_qualifiers(_, _)
\* read_type's loop over the qualifiers; buffer is strlen(buffer)
read_qualifiers(p, buffer) ==
    Bind(skip_gnu_extension(skip_space(p)), LAMBDA p1 :
        IF match_keyword(p1, <<99, 111, 110, 115, 116>>)
        THEN read_qualifiers(Skip(p1, 5), buffer + 6)
        ELSE IF \E kw \in SkippedQualifiers : match_keyword(p1, kw)
             THEN read_qualifiers(
                      Skip(p1, Len(CHOOSE kw \in SkippedQualifiers : match_keyword(p1, kw))),
                      buffer)
        ELSE [p |-> p1, buffer |-> buffer])

\* read_type's chain of type names around "long", in its order: the
\* keyword, the result without and with "unsigned", and the length of the
\* text added to the buffer
TypeNames ==
    <<
        [kw |-> <<118, 111, 105, 100>>, signed |-> "CTYPE_VOID", unsigned |-> "CTYPE_VOID", text |-> 4],   \* void
        [kw |-> <<99, 104, 97, 114>>, signed |-> "CTYPE_CHAR", unsigned |-> "CTYPE_UCHAR", text |-> 4],   \* char
        [kw |-> <<115, 104, 111, 114, 116>>, signed |-> "CTYPE_SHORT", unsigned |-> "CTYPE_USHORT", text |-> 5],   \* short
        [kw |-> <<105, 110, 116>>, signed |-> "CTYPE_INT", unsigned |-> "CTYPE_UINT", text |-> 3],   \* int
        [kw |-> <<102, 108, 111, 97, 116>>, signed |-> "CTYPE_FLOAT", unsigned |-> "CTYPE_FLOAT", text |-> 5],   \* float
        [kw |-> <<100, 111, 117, 98, 108, 101>>, signed |-> "CTYPE_DOUBLE", unsigned |-> "CTYPE_DOUBLE", text |-> 6],   \* double
        [kw |-> <<115, 105, 122, 101, 95, 116>>, signed |-> "CTYPE_SIZE_T", unsigned |-> "CTYPE_SIZE_T", text |-> 6],   \* size_t
        [kw |-> <<95, 66, 111, 111, 108>>, signed |-> "CTYPE_BOOL", unsigned |-> "CTYPE_BOOL", text |-> 4],   \* _Bool
        [kw |-> <<98, 111, 111, 108>>, signed |-> "CTYPE_BOOL", unsigned |-> "CTYPE_BOOL", text |-> 4],   \* bool
        [kw |-> <<105, 110, 116, 56, 95, 116>>, signed |-> "CTYPE_INT8", unsigned |-> "CTYPE_INT8", text |-> 6],   \* int8_t
        [kw |-> <<105, 110, 116, 49, 54, 95, 116>>, signed |-> "CTYPE_INT16", unsigned |-> "CTYPE_INT16", text |-> 7],   \* int16_t
        [kw |-> <<105, 110, 116, 51, 50, 95, 116>>, signed |-> "CTYPE_INT32", unsigned |-> "CTYPE_INT32", text |-> 7],   \* int32_t
        [kw |-> <<105, 110, 116, 54, 52, 95, 116>>, signed |-> "CTYPE_INT64", unsigned |-> "CTYPE_INT64", text |-> 7],   \* int64_t
        [kw |-> <<117, 105, 110, 116, 56, 95, 116>>, signed |-> "CTYPE_UINT8", unsigned |-> "CTYPE_UINT8", text |-> 7],   \* uint8_t
        [kw |-> <<117, 105, 110, 116, 49, 54, 95, 116>>, signed |-> "CTYPE_UINT16", unsigned |-> "CTYPE_UINT16", text |-> 8],   \* uint16_t
        [kw |-> <<117, 105, 110, 116, 51, 50, 95, 116>>, signed |-> "CTYPE_UINT32", unsigned |-> "CTYPE_UINT32", text |-> 8],   \* uint32_t
        [kw |-> <<117, 105, 110, 116, 54, 52, 95, 116>>, signed |-> "CTYPE_UINT64", unsigned |-> "CTYPE_UINT64", text |-> 8]   \* uint64_t
    >>

\* the first type name at the cursor, 0 when there is none
TypeNameAt(p, from, to) ==
    IF \E i \in from..to : match_keyword(p, TypeNames[i].kw)
    THEN CHOOSE i \in from..to :
             /\ match_keyword(p, TypeNames[i].kw)
             /\ \A j \in from..(i - 1) : ~match_keyword(p, TypeNames[j].kw)
    ELSE 0

\* read_type from the type name on: result, cursor and strlen(buffer)
read_type_name(p, is_unsigned, buffer) ==
    LET named(i) ==
            [p |-> Skip(p, Len(TypeNames[i].kw)),
             result |-> IF is_unsigned THEN TypeNames[i].unsigned ELSE TypeNames[i].signed,
             buffer |-> buffer + TypeNames[i].text]
        ident(p1, result, length) ==
            Bind(read_ident(p1), LAMBDA name :
                [p |-> name.p, result |-> result,
                 buffer |-> buffer + length + Len(name.name)])
    IN  IF TypeNameAt(p, 1, 4) # 0 THEN named(TypeNameAt(p, 1, 4))
        ELSE IF match_keyword(p, <<108, 111, 110, 103>>)
             THEN Bind(skip_space(Skip(p, 4)), LAMBDA p1 :
                      IF match_keyword(p1, <<108, 111, 110, 103>>)
                      THEN [p |-> Skip(p1, 4), buffer |-> buffer + 9,
                            result |-> IF is_unsigned THEN "CTYPE_ULONGLONG"
                                       ELSE "CTYPE_LONGLONG"]
                      ELSE IF match_keyword(p1, <<100, 111, 117, 98, 108, 101>>)
                           THEN [p |-> Skip(p1, 6), buffer |-> buffer + 11,
                                 result |-> "CTYPE_DOUBLE"]
                      ELSE [p |-> p1, buffer |-> buffer + 4,
                            result |-> IF is_unsigned THEN "CTYPE_ULONG"
                                       ELSE "CTYPE_LONG"])
        ELSE IF TypeNameAt(p, 5, Len(TypeNames)) # 0
             THEN named(TypeNameAt(p, 5, Len(TypeNames)))
        ELSE IF match_keyword(p, <<115, 116, 114, 117, 99, 116>>) THEN ident(Skip(p, 6), "CTYPE_STRUCT", 7)
        ELSE ident(p, "CTYPE_INT", 0)

RECURSIVE read_pointers(_, _, _)
\* read_type's loop over the stars
read_pointers(p, result, buffer) ==
    IF Cur(p, 0) # 42 THEN [p |-> p, result |-> result, buffer |-> buffer]
    ELSE read_pointers(skip_space(Skip(p, 1)),
                       IF result \in {"CTYPE_CHAR", "CTYPE_UCHAR", "CTYPE_SCHAR"}
                       THEN "CTYPE_STRING" ELSE "CTYPE_POINTER",
                       buffer + 1)

\* read_type.  Each strcat makes the text in the buffer longer, so one of
\* them wrote beyond the BufferSize bytes of the buffer exactly when the
\* text with its NUL does not fit at the end; from there on the behaviour
\* is undefined, and p.smashed records it.
read_type(p) ==
    Bind(read_qualifiers(skip_gnu_extension(skip_space(p)), 0), LAMBDA q :
    Bind(skip_gnu_extension(q.p), LAMBDA p1 :
    LET is_unsigned == match_keyword(p1, <<117, 110, 115, 105, 103, 110, 101, 100>>)
        is_signed == ~is_unsigned /\ match_keyword(p1, <<115, 105, 103, 110, 101, 100>>)
        p2 == IF is_unsigned THEN Skip(p1, 8)
              ELSE IF is_signed THEN Skip(p1, 6) ELSE p1
        buffer == q.buffer + (IF is_unsigned THEN 9 ELSE IF is_signed THEN 7 ELSE 0)
    IN  Bind(read_type_name(skip_space(p2), is_unsigned, buffer), LAMBDA t :
        Bind(read_pointers(skip_space(t.p), t.result, t.buffer), LAMBDA s :
            [p |-> [s.p EXCEPT !.smashed = @ \/ s.buffer + 1 > BufferSize],
             result |-> s.result]))))

\* if (*p->current) p->current++
SkipOne(p) == IF Cur(p, 0) # 0 THEN Skip(p, 1) ELSE p

RECURSIVE skip_brackets(_, _)
\* parse_function's loop over the array brackets of a parameter
skip_brackets(p, ptype) ==
    IF Cur(p, 0) # 91 THEN [p |-> p, ptype |-> ptype]
    ELSE skip_brackets(SkipOne(skip_to(p, 93)), "CTYPE_POINTER")

\* one pass through the body of parse_function's parameter loop, from
\* loop_start = p->current: ended is TRUE at the break, param is the type
\* stored in param_types, "" when none is
parameter(p) ==
    Bind(skip_space(p), LAMBDA p1 :
        IF Cur(p1, 0) = 46 /\ Cur(p1, 1) = 46 /\ Cur(p1, 2) = 46
        THEN [p |-> skip_space(Skip(p1, 3)), ended |-> TRUE, variadic |-> TRUE,
              param |-> ""]
        ELSE IF Cur(p1, 0) = 40
        THEN Bind(skip_space(skip_parens(p1)), LAMBDA p2 :
                 [p |-> IF Cur(p2, 0) = 44 THEN Skip(p2, 1) ELSE p2,
                  ended |-> FALSE, variadic |-> FALSE, param |-> ""])
        ELSE IF ~IS_ALPHA(Cur(p1, 0)) /\ Cur(p1, 0) # 95
        THEN Bind([p1 EXCEPT !.current = FirstOf(p1, {44, 41})], LAMBDA p2 :
                 [p |-> IF Cur(p2, 0) = 44 THEN Skip(p2, 1) ELSE p2,
                  ended |-> FALSE, variadic |-> FALSE, param |-> ""])
        ELSE Bind(read_type(p1), LAMBDA t :
             Bind(skip_space(t.p), LAMBDA p2 :
             Bind(IF IS_ALPHA(Cur(p2, 0)) \/ Cur(p2, 0) = 95 THEN read_ident(p2).p ELSE p2,
                  LAMBDA p3 :
             Bind(skip_brackets(skip_space(p3), t.result), LAMBDA b :
             Bind(skip_space(skip_gnu_extension(b.p)), LAMBDA p4 :
             Bind(IF Cur(p4, 0) = 44 THEN Skip(p4, 1) ELSE p4, LAMBDA p5 :
                 [p |-> IF p5.current = p.current THEN Skip(p5, 1) ELSE p5,
                  ended |-> FALSE, variadic |-> FALSE, param |-> b.ptype])))))))

RECURSIVE parameters(_, _, _)
\* parse_function's parameter loop; each pass adds an event to p.loops
parameters(p, param_types, is_variadic) ==
    IF ~(Cur(p, 0) # 0 /\ Cur(p, 0) # 41)
    THEN [p |-> p, param_types |-> param_types, is_variadic |-> is_variadic]
    ELSE Bind(parameter(p), LAMBDA r :
         Bind([r.p EXCEPT !.loops = Append(@,
                  [loop |-> "parameters", start |-> p.current, end |-> r.p.current,
                   ended |-> r.ended \/ ~(Cur(r.p, 0) # 0 /\ Cur(r.p, 0) # 41)])],
              LAMBDA p1 :
         LET types == IF r.param # "" /\ Len(param_types) < 32
                      THEN Append(param_types, r.param) ELSE param_types
         IN  IF r.ended
             THEN [p |-> p1, param_types |-> types, is_variadic |-> TRUE]
             ELSE parameters(p1, types, is_variadic)))

\* ok is what parse_function returns
parse_function(p) ==
    LET start == p.current IN
    Bind(read_type(p), LAMBDA ret :
    Bind(read_ident(skip_space(ret.p)), LAMBDA name :
    IF ~name.ok THEN [p |-> name.p, ok |-> FALSE]
    ELSE Bind(skip_space(name.p), LAMBDA p1 :
    IF Cur(p1, 0) # 40 THEN [p |-> p1, ok |-> FALSE]
    ELSE Bind(skip_space(Skip(p1, 1)), LAMBDA p2 :
         Bind(IF match_keyword(p2, <<118, 111, 105, 100>>) THEN skip_space(Skip(p2, 4)) ELSE p2,
              LAMBDA p3 :
         IF match_keyword(p2, <<118, 111, 105, 100>>) /\ Cur(p3, 0) # 41
         THEN Bind(skip_to([p3 EXCEPT !.current = start], 59), LAMBDA p4 :
                  [p |-> IF Cur(p4, 0) # 0 THEN Skip(p4, 1) ELSE p4, ok |-> FALSE])
         ELSE Bind(parameters(p3, <<>>, FALSE), LAMBDA ps :
              Bind(skip_space(IF Cur(ps.p, 0) = 41 THEN Skip(ps.p, 1) ELSE ps.p),
                   LAMBDA p4 :
              Bind(IF Cur(p4, 0) = 123 THEN skip_braces(p4)
                   ELSE (Bind(skip_to(p4, 59), LAMBDA p5 :
                             IF Cur(p5, 0) # 0 THEN Skip(p5, 1) ELSE p5)),
                   LAMBDA p6 :
                  [p |-> [p6 EXCEPT !.functions = Append(@,
                             [name |-> name.name, return_type |-> ret.result,
                              param_types |-> ps.param_types,
                              is_variadic |-> ps.is_variadic])],
                   ok |-> TRUE]))))))))

\* the text of a macro's value ends before this index
ValueEnd(p, from, to) ==
    IF \E i \in from..(to - 1) : ~IS_SPACE(ByteAt(p, i))
    THEN 1 + CHOOSE i \in from..(to - 1) :
                 /\ ~IS_SPACE(ByteAt(p, i))
                 /\ \A j \in (i + 1)..(to - 1) : IS_SPACE(ByteAt(p, j))
    ELSE from

parse_define(p) ==
    Bind(read_ident(skip_space(p)), LAMBDA name :
        IF ~name.ok THEN name.p
        ELSE Bind(skip_space(name.p), LAMBDA p1 :
                 IF Cur(p1, 0) = 40 THEN skip_to(p1, 10)
                 ELSE Bind([p1 EXCEPT !.current = FirstOf(p1, {10})], LAMBDA p2 :
                      LET value_len == ValueEnd(p2, p1.current, p2.current) - p1.current
                      IN  IF value_len = 0 \/ value_len >= 256 THEN p2
                          ELSE [p2 EXCEPT !.macro_count = @ + 1])))

RECURSIVE enum_values(_, _)
\* parse_enum's loop over the values
enum_values(p, count) ==
    IF ~(Cur(p, 0) # 0 /\ Cur(p, 0) # 125 /\ count < 256) THEN p
    ELSE Bind(skip_space(p), LAMBDA p1 :
         IF Cur(p1, 0) = 125 THEN p1
         ELSE Bind(read_ident(p1), LAMBDA name :
              IF ~name.ok THEN name.p
              ELSE Bind(skip_space(name.p), LAMBDA p2 :
                   Bind(IF Cur(p2, 0) = 61
                        THEN (Bind(skip_space(Skip(p2, 1)), LAMBDA p3 :
                                  [p3 EXCEPT !.current = FirstOf(p3, {44, 125})]))
                        ELSE p2, LAMBDA p4 :
                   Bind(skip_space(p4), LAMBDA p5 :
                       enum_values(IF Cur(p5, 0) = 44 THEN Skip(p5, 1) ELSE p5,
                                   count + 1))))))

parse_enum(p) ==
    Bind(skip_space(p), LAMBDA p0 :
    Bind(skip_space(IF IS_ALPHA(Cur(p0, 0)) THEN read_ident(p0).p ELSE p0), LAMBDA p1 :
        IF Cur(p1, 0) # 123 THEN p1
        ELSE Bind(enum_values(Skip(p1, 1), 0), LAMBDA p2 :
             Bind(skip_to(IF Cur(p2, 0) = 125 THEN Skip(p2, 1) ELSE p2, 59), LAMBDA p3 :
                 [(IF Cur(p3, 0) # 0 THEN Skip(p3, 1) ELSE p3)
                     EXCEPT !.enum_count = @ + 1]))))

\* a newline that ends a directive begun at p->current: one that no
\* backslash of the directive comes before
EndsDirective(p, i) ==
    ByteAt(p, i) = 0 \/ (ByteAt(p, i) = 10 /\ ~(i > p.current /\ ByteAt(p, i - 1) = 92))

\* cheader_parse's loop over a preprocessor directive that is no #define:
\* a backslash and the newline after it are stepped over together, and
\* that newline is the only kind counted
skip_directive(p) ==
    LET end == CHOOSE i \in p.current..(Len(p.source) + 1) :
                   /\ EndsDirective(p, i)
                   /\ \A j \in p.current..(i - 1) : ~EndsDirective(p, j)
    IN  [p EXCEPT !.current = end, !.line = @ + Newlines(p, end)]

RECURSIVE skip_typedef(_)
\* cheader_parse's loop over a typedef, from one brace, parenthesis or
\* semicolon to the next
skip_typedef(p) ==
    IF ~(Cur(p, 0) # 0 /\ Cur(p, 0) # 59) THEN p
    ELSE IF Cur(p, 0) = 123 THEN skip_typedef(skip_braces(p))
    ELSE IF Cur(p, 0) = 40 THEN skip_typedef(skip_parens(p))
    ELSE skip_typedef(MoveTo(p, FirstOf(p, {59, 123, 40})))

\* one pass through the body of cheader_parse's loop; ended is TRUE at the
\* break
declaration(p) ==
    Bind(skip_gnu_extension(skip_space(p)), LAMBDA p1 :
    LET go(p2) == [p |-> p2, ended |-> FALSE] IN
    IF Cur(p1, 0) = 0 THEN [p |-> p1, ended |-> TRUE]
    ELSE IF Cur(p1, 0) = 35
    THEN Bind(skip_space(Skip(p1, 1)), LAMBDA p2 :
             IF match_keyword(p2, <<100, 101, 102, 105, 110, 101>>) THEN go(parse_define(Skip(p2, 6)))
             ELSE go(skip_directive(p2)))
    ELSE IF StartsWith(p1, <<95, 95, 97, 115, 109>>) \/ StartsWith(p1, <<97, 115, 109>>)
    THEN Bind(skip_space([p1 EXCEPT !.current = IdentEnd(p1)]), LAMBDA p2 :
         Bind(IF Cur(p2, 0) = 40 THEN skip_parens(p2) ELSE p2, LAMBDA p3 :
         Bind(IF Cur(p3, 0) = 123 THEN skip_braces(p3) ELSE p3, LAMBDA p4 :
             go(SkipOne(skip_to(p4, 59))))))
    ELSE IF match_keyword(p1, <<101, 110, 117, 109>>) THEN go(parse_enum(Skip(p1, 4)))
    ELSE IF match_keyword(p1, <<116, 121, 112, 101, 100, 101, 102>>)
    THEN go(SkipOne(skip_typedef(skip_space(Skip(p1, 7)))))
    ELSE IF match_keyword(p1, <<115, 116, 114, 117, 99, 116>>) \/ match_keyword(p1, <<117, 110, 105, 111, 110>>)
    THEN Bind(skip_gnu_extension(skip_space(
                  Skip(p1, IF match_keyword(p1, <<115, 116, 114, 117, 99, 116>>) THEN 6 ELSE 5))), LAMBDA p2 :
         Bind(IF IS_ALPHA(Cur(p2, 0)) THEN read_ident(p2).p ELSE p2, LAMBDA p3 :
         Bind(skip_gnu_extension(skip_space(p3)), LAMBDA p4 :
         Bind(IF Cur(p4, 0) = 123 THEN skip_braces(p4) ELSE p4, LAMBDA p5 :
             go(SkipOne(skip_to(p5, 59)))))))
    ELSE IF match_keyword(p1, <<101, 120, 116, 101, 114, 110>>)
    THEN Bind(skip_space(Skip(p1, 6)), LAMBDA p2 :
             IF Cur(p2, 0) # 34 THEN go(p2)
             ELSE Bind(SkipOne(skip_to(p2, 34)), LAMBDA p3 :
                  Bind(skip_space(SkipOne(skip_to(p3, 34))), LAMBDA p4 :
                      go(IF Cur(p4, 0) = 123 THEN Skip(p4, 1) ELSE p4))))
    ELSE Bind(parse_function(p1), LAMBDA f :
         Bind(IF f.ok THEN f.p
              ELSE SkipOne(skip_to([f.p EXCEPT !.current = p1.current], 59)),
              LAMBDA p2 :
             go(IF p2.current = p.current /\ Cur(p2, 0) # 0 THEN Skip(p2, 1)
                ELSE p2))))

\* the number of iterations cheader_parse allows itself
max_iterations == 100000

\* cheader_parse's first statements
cheader_start(source) ==
    [source |-> source, current |-> 1, line |-> 1, functions |-> <<>>,
     enum_count |-> 0, macro_count |-> 0, loops |-> <<>>, smashed |-> FALSE]

---------------------------------------------------------------------------
(* The header specification: cheader_parse reads a source put together     *)
(* from at most MaxPieces pieces, one iteration of its loop at a step.     *)
(* parser is the CHeaderParser, nops the local iteration, trace has one    *)
(* event for each iteration of the loop.                                   *)

MaxPieces == 3

\* a type name that with its NUL does not fit in read_type's buffer
LongName == [i \in 1..BufferSize |-> 97]

HeaderPieces ==
    {
        <<105, 110, 116, 32, 102, 40>>,   \* int f(
        <<105, 110, 116, 32, 120>>,   \* int x
        <<44>>,   \* ,
        <<41>>,   \* )
        <<59>>,   \* ;
        <<46, 46, 46>>,   \* ...
        <<118, 111, 105, 100>>,   \* void
        <<40, 49, 41>>,   \* (1)
        <<35, 100, 101, 102, 105, 110, 101, 32, 65, 32, 49, 10>>,   \* #define A 1\n
        <<101, 110, 117, 109, 123, 65, 61, 49, 125>>,   \* enum{A=1}
        <<116, 121, 112, 101, 100, 101, 102, 32, 123>>,   \* typedef {
        <<47, 42>>,   \* /*
        <<95, 95, 119, 117, 114, 32, 120, 91>>,   \* __wur x[
        LongName
    }

RECURSIVE Glued(_)
\* the pieces one after the other
Glued(pieces) == IF pieces = <<>> THEN <<>> ELSE Head(pieces) \o Glued(Tail(pieces))

HeaderSources ==
    {Glued(pieces) : pieces \in UNION {[1..n -> HeaderPieces] : n \in 0..MaxPieces}}

HeaderInit ==
    /\ InitMachine(EmptyMachine)
    /\ rc0 = <<>>
    /\ tut = NULL
    /\ program = <<>>
    /\ map = NULL
    /\ lx = NULL
    /\ tokens = NULL
    /\ storage = NULL
    /\ input \in HeaderSources
    /\ parser = cheader_start(input)
    /\ nops = 0
    /\ pc = "cheader_parse"

\* while (*parser->current && iteration++ < max_iterations)
HeaderLoops(p, iteration) == Cur(p, 0) # 0 /\ iteration < max_iterations

\* One iteration of cheader_parse's loop.  An iteration in which read_type
\* wrote beyond its buffer has undefined behaviour: the process is killed,
\* or it goes on as if the buffer had been large enough.
HeaderIteration ==
    /\ pc = "cheader_parse"
    /\ HeaderLoops(parser, nops)
    /\ LET r == declaration(parser)
       IN  /\ parser' = r.p
           /\ trace' = Append(trace,
                  [ev |-> "iteration", start |-> parser.current,
                   end |-> r.p.current,
                   ended |-> r.ended \/ ~HeaderLoops(r.p, nops + 1)])
           /\ \E outcome \in IF r.p.smashed THEN {"crashed", "cheader_parse"}
                             ELSE IF r.ended THEN {"done"} ELSE {"cheader_parse"} :
                  pc' = outcome
    /\ nops' = nops + 1
    /\ UNCHANGED <<heap, string_table, envs, interp, program, tut, rc0, input,
                   map, lx, tokens, storage>>

\* the loop's condition fails and cheader_parse returns true
HeaderReturn ==
    /\ pc = "cheader_parse"
    /\ ~HeaderLoops(parser, nops)
    /\ nops' = IF Cur(parser, 0) # 0 THEN nops + 1 ELSE nops
    /\ pc' = "done"
    /\ UNCHANGED <<heap, string_table, envs, interp, trace, program, tut, rc0,
                   parser, input, map, lx, tokens, storage>>

NextHeader ==
    \/ HeaderIteration
    \/ HeaderReturn

SpecHeader == HeaderInit /\ [][NextHeader]_vars

\* the iterations of a loop that did not end it
Going(events) == {i \in 1..Len(events) : ~events[i].ended}

\* C26: cheader_parse terminates on every NUL-terminated input: it is never
\* killed, every iteration of its loop and of parse_function's parameter
\* loop that does not end the loop moves the cursor forward by at least one
\* character, the cursor is never beyond the NUL, and the loop runs at most
\* max_iterations times.
C26_HeaderParseTerminates ==
    /\ pc # "crashed"
    /\ \A i \in Going(trace) : trace[i].end > trace[i].start
    /\ \A i \in Going(parser.loops) : parser.loops[i].end > parser.loops[i].start
    /\ parser.current <= Len(input) + 1
    /\ Len(trace) <= max_iterations

=============================================================================
